---- MODULE Spec2Model ----
(***************************************************************************)
(* A model of the portion-renderer crate: the PortionRenderer (layers,     *)
(* objects, pixel buffer, draw pipeline) and the geometry it relies on,    *)
(* the TightVec arena of the tightvec crate, and the Portioner grid.       *)
(*                                                                         *)
(* Conventions of the model                                                *)
(*  - A pixel is one buffer element [c, a] (colour, alpha); the code       *)
(*    stores it as four consecutive u8 channels, so a pixel index of the   *)
(*    model is the code's red_index divided by indices_per_pixel.          *)
(*  - Vec and TightVec values are sequences; the code's 0-based index i    *)
(*    is position i + 1 of the sequence.  Indices stored in the state      *)
(*    (object ids, layer_index, texture_index) are the code's 0-based      *)
(*    values.                                                              *)
(*  - Option<T> is a sequence of length 0 (None) or 1 (Some).              *)
(*  - Rotations are quarter turns, for which sin and cos are the exact     *)
(*    integers -1, 0, 1; every f32 of the geometry is then an integer.     *)
(*  - A Rust panic sets panicked and ends the behaviour.                   *)
(***************************************************************************)
EXTENDS Integers, Sequences, FiniteSets, TLC

\* ---------------------------------------------------------------- bounds
Width == 3
Height == 3
MaxObjects == 2
MaxKey == 2
MaxUpdates == 2
MaxOps == 4
MaxSetup == 3
MaxCreates == 3
MaxSlots == 3
MaxFree == 3
GridRows == 2
GridCols == 3
RowHeight == 2
ColWidth == 2
MaxCoord == 2
MaxClearOps == 6

VARIABLES
    pixel_buffer,   \* PortionRenderer.pixel_buffer
    clear_buffer,   \* PortionRenderer.clear_buffer
    textures,       \* PortionRenderer.textures (slots of the arena)
    layers,         \* PortionRenderer.layers
    objects,        \* PortionRenderer.objects (slots of the arena)
    panicked,       \* a panic has ended the program
    last_op,        \* the public operation that produced this state
    drawn,          \* object ids handed to draw_object by the last operation
    written,        \* (x, y) of the pixel_buffer writes of the last operation
    taken,          \* (x, y) of the take_pixel calls of the last operation
    ops,            \* number of operations so far, where a specification bounds it
    pc,             \* position of a scripted scenario
    saved,          \* what a scripted scenario remembers
    tightvec,       \* a TightVec on its own: buf, next, and whether a call panicked
    freed,          \* the free slots of tightvec, in the order they were freed
    portioner,      \* a Portioner on its own: its grid of cells
    portions        \* what the last call returned if it was flush_portions, else <<>>

rvars == <<pixel_buffer, clear_buffer, textures, layers, objects, panicked,
           last_op, drawn, written, taken>>
svars == <<ops, pc, saved>>
tvars == <<tightvec, freed>>
pvars == <<portioner, portions>>
vars == <<pixel_buffer, clear_buffer, textures, layers, objects, panicked,
          last_op, drawn, written, taken, ops, pc, saved, tightvec, freed,
          portioner, portions>>

\* ------------------------------------------------------------- utilities
None == <<>>
Some(v) == <<v>>
IsSome(o) == Len(o) = 1
Unwrap(o) == o[1]

Max(a, b) == IF a >= b THEN a ELSE b
Min(a, b) == IF a <= b THEN a ELSE b

\* `v as u32` for an f32 v: a negative value saturates to 0
AsU32(v) == IF v < 0 THEN 0 ELSE v

\* ---------------------------------------------------------------- pixels
RgbaPixel(c, a) == [c |-> c, a |-> a]
PIXEL_BLANK == RgbaPixel("x", 0)
PIXEL_RED == RgbaPixel("r", 255)
PIXEL_GREEN == RgbaPixel("g", 255)
PIXEL_BLUE == RgbaPixel("b", 255)
\* a colour whose alpha is zero but whose channels are not the blank ones
PIXEL_GHOST == RgbaPixel("t", 0)

get_red_index(x, y, w) == y * w + x

\* ----------------------------------------------------------------- rects
Rect(x, y, w, h) == [x |-> x, y |-> y, w |-> w, h |-> h]
EMPTY_RECT == Rect(0, 0, 0, 0)

contains_u32(r, x, y) ==
    /\ r.x <= x
    /\ r.y <= y
    /\ x < r.x + r.w
    /\ y < r.y + r.h

\* intersection with the comparisons made inclusive
intersection_inclusive(a, b) ==
    LET x1 == Max(a.x, b.x)
        x2 == Min(a.x + a.w, b.x + b.w)
        y1 == Max(a.y, b.y)
        y2 == Min(a.y + a.h, b.y + b.h)
    IN  IF x2 >= x1 /\ y2 >= y1
        THEN Some(Rect(x1, y1, x2 - x1, y2 - y1))
        ELSE None

intersection(a, b) ==
    LET x1 == Max(a.x, b.x)
        x2 == Min(a.x + a.w, b.x + b.w)
        y1 == Max(a.y, b.y)
        y2 == Min(a.y + a.h, b.y + b.h)
    IN  IF x2 > x1 /\ y2 > y1
        THEN Some(Rect(x1, y1, x2 - x1, y2 - y1))
        ELSE None


should_skip_point(skip_regions, x, y) ==
    \E k \in 1..Len(skip_regions) : contains_u32(skip_regions[k], x, y)

\* -------------------------------------------------------------- matrices
\* Matrix::Rotate(cos, sin)
Unit == [kind |-> "Unit"]

Scale(sx, sy) == [kind |-> "Scale", sx |-> sx, sy |-> sy]

TranslateXY(by_x, by_y) == [kind |-> "TranslateXY", by_x |-> by_x, by_y |-> by_y]

Rotate(cos, sin) == [kind |-> "Rotate", cos |-> cos, sin |-> sin]

ScaleAndTranslate(sx, sy, by_x, by_y) ==
    [kind |-> "ScaleAndTranslate", sx |-> sx, sy |-> sy, by_x |-> by_x, by_y |-> by_y]

RotateAndTranslate(cos, sin, by_x, by_y) ==
    [kind |-> "RotateAndTranslate", cos |-> cos, sin |-> sin, by_x |-> by_x, by_y |-> by_y]

RotateAndScaleAndTranslate(a0, a1, b0, b1, by_x, by_y) ==
    [kind |-> "RotateAndScaleAndTranslate", a0 |-> a0, a1 |-> a1, b0 |-> b0, b1 |-> b1,
     by_x |-> by_x, by_y |-> by_y]

Cos(degrees) ==
    CASE degrees = 0 -> 1
      [] degrees = 90 -> 0
      [] degrees = -90 -> 0
      [] degrees = 180 -> -1

Sin(degrees) ==
    CASE degrees = 0 -> 0
      [] degrees = 90 -> 1
      [] degrees = -90 -> -1
      [] degrees = 180 -> 0

rotate_degrees(angle) == Rotate(Cos(angle), Sin(angle))

\* the inverse of a rotation is the rotation by the opposite angle
invert(m) == Rotate(m.cos, 0 - m.sin)

mul_point(m, x, y) ==
    CASE m.kind = "Unit" -> <<x, y>>
      [] m.kind = "Scale" -> <<m.sx * x, m.sy * y>>
      [] m.kind = "Rotate" -> <<m.cos * x - m.sin * y, m.sin * x + m.cos * y>>
      [] m.kind = "TranslateXY" -> <<x + m.by_x, y + m.by_y>>
      [] m.kind = "ScaleAndTranslate" -> <<m.sx * x + m.by_x, m.sy * y + m.by_y>>
      [] m.kind = "RotateAndTranslate" ->
            <<m.cos * x - m.sin * y + m.by_x, m.sin * x + m.cos * y + m.by_y>>
      [] m.kind = "RotateAndScaleAndTranslate" ->
            <<m.a0 * x + m.a1 * y + m.by_x, m.b0 * x + m.b1 * y + m.by_y>>

\* the nine coefficients of a matrix, row by row (index i of the array at i + 1)
into(m) ==
    CASE m.kind = "Unit" -> <<1, 0, 0, 0, 1, 0, 0, 0, 1>>
      [] m.kind = "Scale" -> <<m.sx, 0, 0, 0, m.sy, 0, 0, 0, 1>>
      [] m.kind = "Rotate" -> <<m.cos, 0 - m.sin, 0, m.sin, m.cos, 0, 0, 0, 1>>
      [] m.kind = "TranslateXY" -> <<1, 0, m.by_x, 0, 1, m.by_y, 0, 0, 1>>
      [] m.kind = "ScaleAndTranslate" -> <<m.sx, 0, m.by_x, 0, m.sy, m.by_y, 0, 0, 1>>
      [] m.kind = "RotateAndTranslate" ->
            <<m.cos, 0 - m.sin, m.by_x, m.sin, m.cos, m.by_y, 0, 0, 1>>
      [] m.kind = "RotateAndScaleAndTranslate" ->
            <<m.a0, m.a1, m.by_x, m.b0, m.b1, m.by_y, 0, 0, 1>>

\* the product taken in the opposite order
mul3x3_swapped(a, b) ==
    <<b[1] * a[1] + b[2] * a[4] + b[3] * a[7],
      b[1] * a[2] + b[2] * a[5] + b[3] * a[8],
      b[1] * a[3] + b[2] * a[6] + b[3] * a[9],
      b[4] * a[1] + b[5] * a[4] + b[6] * a[7],
      b[4] * a[2] + b[5] * a[5] + b[6] * a[8],
      b[4] * a[3] + b[5] * a[6] + b[6] * a[9],
      b[7] * a[1] + b[8] * a[4] + b[9] * a[7],
      b[7] * a[2] + b[8] * a[5] + b[9] * a[8],
      b[7] * a[3] + b[8] * a[6] + b[9] * a[9]>>

mul3x3(a, b) ==
    <<a[1] * b[1] + a[2] * b[4] + a[3] * b[7],
      a[1] * b[2] + a[2] * b[5] + a[3] * b[8],
      a[1] * b[3] + a[2] * b[6] + a[3] * b[9],
      a[4] * b[1] + a[5] * b[4] + a[6] * b[7],
      a[4] * b[2] + a[5] * b[5] + a[6] * b[8],
      a[4] * b[3] + a[5] * b[6] + a[6] * b[9],
      a[7] * b[1] + a[8] * b[4] + a[9] * b[7],
      a[7] * b[2] + a[8] * b[5] + a[9] * b[8],
      a[7] * b[3] + a[8] * b[6] + a[9] * b[9]>>

\* Matrix * Matrix: the 3x3 product, then the variant chosen from its
\* coefficients
mul(self, rhs) ==
    LET multiplied == mul3x3(into(self), into(rhs))
        has_scale == IF multiplied[1] = 1 /\ multiplied[5] = 1
                     THEN None ELSE Some(<<multiplied[1], multiplied[5]>>)
        has_translate == IF multiplied[3] = 0 /\ multiplied[6] = 0
                         THEN None ELSE Some(<<multiplied[3], multiplied[6]>>)
        has_rotate == IF multiplied[2] = 0 /\ multiplied[4] = 0
                      THEN None
                      ELSE Some(<<multiplied[1], multiplied[2], multiplied[4], multiplied[5]>>)
        is_sin_and_cos == multiplied[1] = multiplied[5] /\ multiplied[2] = 0 - multiplied[4]
    IN  IF is_sin_and_cos /\ ~IsSome(has_translate)
        THEN Rotate(multiplied[1], multiplied[4])
        ELSE IF is_sin_and_cos /\ IsSome(has_translate)
        THEN RotateAndTranslate(multiplied[1], multiplied[4],
                                Unwrap(has_translate)[1], Unwrap(has_translate)[2])
        ELSE IF ~IsSome(has_rotate)
        THEN (IF ~IsSome(has_scale) /\ ~IsSome(has_translate) THEN Unit
              ELSE IF ~IsSome(has_scale)
              THEN TranslateXY(Unwrap(has_translate)[1], Unwrap(has_translate)[2])
              ELSE IF ~IsSome(has_translate)
              THEN Scale(Unwrap(has_scale)[1], Unwrap(has_scale)[2])
              ELSE ScaleAndTranslate(Unwrap(has_scale)[1], Unwrap(has_scale)[2],
                                     Unwrap(has_translate)[1], Unwrap(has_translate)[2]))
        ELSE LET r == Unwrap(has_rotate) IN
             IF ~IsSome(has_translate)
             THEN RotateAndScaleAndTranslate(r[1], r[2], r[3], r[4], 0, 0)
             ELSE RotateAndScaleAndTranslate(r[1], r[2], r[3], r[4],
                                             Unwrap(has_translate)[1], Unwrap(has_translate)[2])

compute_pt(m, x, y) == <<m.cos * x - m.sin * y, m.sin * x + m.cos * y>>

\* ---------------------------------------------------------- tilted rects
Point(x, y) == [x |-> x, y |-> y]

transform_by(p, matrix) ==
    LET xy == mul_point(matrix, p.x, p.y) IN Point(xy[1], xy[2])

vector(x1, y1, x2, y2) == [x |-> x2 - x1, y |-> y2 - y1]

dot(u, v) == u.x * v.x + u.y * v.y

Min3(a, b, c) == Min(a, Min(b, c))
Max3(a, b, c) == Max(a, Max(b, c))

\* the three values in ascending order
sorted_values(a, b, c) ==
    <<Min3(a, b, c), a + b + c - Min3(a, b, c) - Max3(a, b, c), Max3(a, b, c)>>

from_points(a, b, c) ==
    LET sorted_x == sorted_values(a.x, b.x, c.x)
        sorted_y == sorted_values(a.y, b.y, c.y)
        x == AsU32(sorted_x[1])
        y == AsU32(sorted_y[1])
        w == AsU32(sorted_x[3] - sorted_x[2] + sorted_x[2] - sorted_x[1])
        h == AsU32(sorted_y[3] - sorted_y[1] + sorted_y[2] - sorted_y[1])
        ab_vec == vector(a.x, a.y, b.x, b.y)
        bc_vec == vector(b.x, b.y, c.x, c.y)
    IN  [ax |-> a.x, ay |-> a.y, bx |-> b.x, by |-> b.y, cx |-> c.x, cy |-> c.y,
         ab_vec |-> ab_vec, ab_dot |-> dot(ab_vec, ab_vec),
         bc_vec |-> bc_vec, bc_dot |-> dot(bc_vec, bc_vec),
         bounding_rect |-> Rect(x, y, w, h)]

from_bounds_and_matrix(bounds, matrix) ==
    LET x == bounds.x
        y == bounds.y
        max_x == x + bounds.w - 1
        max_y == y + bounds.h - 1
    IN  from_points(transform_by(Point(x, y), matrix),
                    transform_by(Point(max_x, y), matrix),
                    transform_by(Point(max_x, max_y), matrix))


\* TiltedRect::contains with the side through A left out
contains_open(t, x, y) ==
    LET am == vector(t.ax, t.ay, x, y)
        bm == vector(t.bx, t.by, x, y)
        dot_abam == dot(t.ab_vec, am)
        dot_bcbm == dot(t.bc_vec, bm)
    IN  /\ dot_abam > 0
        /\ dot_bcbm >= 0
        /\ dot_abam <= t.ab_dot
        /\ dot_bcbm <= t.bc_dot

\* TiltedRect::contains
contains(t, x, y) ==
    LET am == vector(t.ax, t.ay, x, y)
        bm == vector(t.bx, t.by, x, y)
        dot_abam == dot(t.ab_vec, am)
        dot_bcbm == dot(t.bc_vec, bm)
    IN  /\ dot_abam >= 0
        /\ dot_bcbm >= 0
        /\ dot_abam <= t.ab_dot
        /\ dot_bcbm <= t.bc_dot

\* TiltedRect::shift_bounds_x / shift_bounds_y: the three corners and the
\* bounding rect move by the same delta, the edge vectors stay
shift_bounds_x(t, by) ==
    [t EXCEPT !.ax = @ + by, !.bx = @ + by, !.cx = @ + by,
              !.bounding_rect.x = @ + by]

shift_bounds_y(t, by) ==
    [t EXCEPT !.ay = @ + by, !.by = @ + by, !.cy = @ + by,
              !.bounding_rect.y = @ + by]

\* --------------------------------------------------------------- objects
Transform(matrix, bounds) == [matrix |-> matrix, bounds |-> bounds]

Texture(data, width, height) == [data |-> data, width |-> width, height |-> height]

\* GetRectangularBounds for Object
get_bounds(object) ==
    IF IsSome(object.transform)
    THEN Unwrap(object.transform).bounds.bounding_rect
    ELSE object.current_bounds

Layer(index) == [index |-> index, objects |-> <<>>, updates |-> <<>>]

\* the renderer as one value
Renderer ==
    [pixel_buffer |-> pixel_buffer, clear_buffer |-> clear_buffer,
     textures |-> textures, layers |-> layers, objects |-> objects,
     panicked |-> panicked, drawn |-> <<>>, written |-> {}, taken |-> {},
     steps |-> <<>>]

\* PortionRenderer::new_ex(Width, Height, ..)
new_ex ==
    [pixel_buffer |-> [k \in 1..(Width * Height) |-> PIXEL_BLANK],
     clear_buffer |-> [k \in 1..(Width * Height) |-> PIXEL_BLANK],
     textures |-> <<>>,
     layers |-> <<Layer(0)>>,
     objects |-> <<>>,
     panicked |-> FALSE, drawn |-> <<>>, written |-> {}, taken |-> {},
     steps |-> <<>>]

\* ---------------------------------------------------------------- layers
\* the scan of Layer::get_or_make_layer from position i (0-based):
\* <<update_at_index, insert_at_index>>
RECURSIVE scan_layers(_, _, _)
scan_layers(ls, layer_index, i) ==
    IF i >= Len(ls) THEN <<None, 0>>
    ELSE IF ls[i + 1].index = layer_index THEN <<Some(i), 0>>
    ELSE IF ls[i + 1].index > layer_index THEN <<None, i>>
    ELSE IF i = Len(ls) - 1 THEN <<None, i + 1>>
    ELSE scan_layers(ls, layer_index, i + 1)

\* get_or_make_layer that puts a new layer at insert_at_index, moving the
\* layers behind it one position up
get_or_make_layer_inserted(ls, layer_index) ==
    LET found == scan_layers(ls, layer_index, 0) IN
    IF IsSome(found[1])
    THEN [layers |-> ls, ret |-> Unwrap(found[1])]
    ELSE [layers |-> SubSeq(ls, 1, found[2]) \o <<Layer(layer_index)>>
                         \o SubSeq(ls, found[2] + 1, Len(ls)),
          ret |-> found[2]]

\* Layer::get_or_make_layer: the layer list afterwards and the returned position
get_or_make_layer(ls, layer_index) ==
    LET found == scan_layers(ls, layer_index, 0) IN
    IF IsSome(found[1])
    THEN [layers |-> ls, ret |-> Unwrap(found[1])]
    ELSE [layers |-> Append(ls, Layer(layer_index)), ret |-> found[2]]

\* set_object_updated_on_layer that files the object without marking it
set_object_updated_on_layer_unmarked(r, object_index, layer_index) ==
    [r EXCEPT !.layers[layer_index + 1].objects = Append(@, object_index)]

set_object_updated_on_layer(r, object_index, layer_index) ==
    [r EXCEPT !.layers[layer_index + 1].objects = Append(@, object_index),
              !.layers[layer_index + 1].updates = Append(@, object_index)]

set_layer_update(r, object_index) ==
    LET layer_index == r.objects[object_index + 1].layer_index IN
    [r EXCEPT !.layers[layer_index + 1].updates = Append(@, object_index)]

\* TightVec::insert on an arena from which nothing was removed: the value is
\* pushed, its index is the previous length
tightvec_insert(buf, value) == [buf |-> Append(buf, value), ret |-> Len(buf)]

\* PortionRenderer::create_object: the renderer afterwards and the returned id
create_object(r, layer_index, bounds, texture, color) ==
    LET tex == IF IsSome(texture)
               THEN tightvec_insert(r.textures, Unwrap(texture))
               ELSE [buf |-> r.textures, ret |-> 0]
        got == get_or_make_layer(r.layers, layer_index)
        new_object == [texture_color |-> color,
                       transform |-> None,
                       layer_index |-> got.ret,
                       texture_index |-> tex.ret,
                       current_bounds |-> bounds,
                       previous_bounds |-> bounds,
                       initial_render |-> TRUE]
        ins == tightvec_insert(r.objects, new_object)
        r1 == [r EXCEPT !.textures = tex.buf, !.layers = got.layers,
                        !.objects = ins.buf]
    IN  [r |-> set_object_updated_on_layer(r1, ins.ret, got.ret), ret |-> ins.ret]

\* ------------------------------------------------------ rotate and move
set_object_rotation(r, object_index, degrees) ==
    IF degrees = 0
    THEN IF IsSome(r.objects[object_index + 1].transform)
         THEN set_layer_update(
                  [r EXCEPT !.objects[object_index + 1].transform = None],
                  object_index)
         ELSE r
    ELSE LET current_bounds == r.objects[object_index + 1].current_bounds
             transform_matrix == rotate_degrees(degrees)
             inverse_transform == invert(transform_matrix)
             tilted_rect == from_bounds_and_matrix(current_bounds, transform_matrix)
             t == Transform(inverse_transform, tilted_rect)
         IN  set_layer_update(
                 [r EXCEPT !.objects[object_index + 1].transform = Some(t)],
                 object_index)

\* move_object_x_by that clamps a negative move at 0
move_object_x_by_clamped(r, object_index, by) ==
    set_layer_update(
        [r EXCEPT !.objects[object_index + 1].current_bounds.x = Max(0, @ + by)],
        object_index)

move_object_x_by(r, object_index, by) ==
    LET current_x == r.objects[object_index + 1].current_bounds.x
        r1 == IF by < 0
              THEN IF current_x >= 0 - by
                   THEN set_layer_update(
                            [r EXCEPT !.objects[object_index + 1].current_bounds.x = @ - (0 - by)],
                            object_index)
                   ELSE r
              ELSE set_layer_update(
                       [r EXCEPT !.objects[object_index + 1].current_bounds.x = @ + by],
                       object_index)
    IN  IF IsSome(r1.objects[object_index + 1].transform)
        THEN [r1 EXCEPT !.objects[object_index + 1].transform[1].bounds =
                            shift_bounds_x(@, by)]
        ELSE r1

move_object_y_by(r, object_index, by) ==
    LET current_y == r.objects[object_index + 1].current_bounds.y
        r1 == IF by < 0
              THEN IF current_y >= 0 - by
                   THEN set_layer_update(
                            [r EXCEPT !.objects[object_index + 1].current_bounds.y = @ - (0 - by)],
                            object_index)
                   ELSE r
              ELSE set_layer_update(
                       [r EXCEPT !.objects[object_index + 1].current_bounds.y = @ + by],
                       object_index)
    IN  IF IsSome(r1.objects[object_index + 1].transform)
        THEN [r1 EXCEPT !.objects[object_index + 1].transform[1].bounds =
                            shift_bounds_y(@, by)]
        ELSE r1

\* --------------------------------------------------------- occlusion sets
\* the rects of Some values among the intersections of the footprints of
\* the objects listed in ids with rect b, in list order
RECURSIVE intersections_with(_, _, _, _)
intersections_with(r, ids, b, k) ==
    IF k > Len(ids) THEN <<>>
    ELSE intersection(get_bounds(r.objects[ids[k] + 1]), b)
         \o intersections_with(r, ids, b, k + 1)

RECURSIVE above_layers(_, _, _, _)
above_layers(r, object_index, i, which) ==
    IF i >= Len(r.layers) THEN <<>>
    ELSE intersections_with(r, r.layers[i + 1].objects,
             IF which = "current"
             THEN get_bounds(r.objects[object_index + 1])
             ELSE r.objects[object_index + 1].previous_bounds, 1)
         \o above_layers(r, object_index, i + 1, which)

\* get_regions_above_object that finds no occluder
get_regions_above_object_none(r, object_index, layer_index) ==
    [above_my_current |-> <<>>, above_my_previous |-> <<>>]

get_regions_above_object(r, object_index, layer_index) ==
    [above_my_current |-> above_layers(r, object_index, layer_index + 1, "current"),
     above_my_previous |-> above_layers(r, object_index, layer_index + 1, "previous")]

\* the BelowRegion values of one layer, in list order
RECURSIVE below_regions_of(_, _, _, _)
below_regions_of(r, ids, b, k) ==
    IF k > Len(ids) THEN <<>>
    ELSE LET hit == intersection(get_bounds(r.objects[ids[k] + 1]), b) IN
         (IF IsSome(hit)
          THEN <<[region |-> Unwrap(hit), region_belongs_to |-> ids[k]]>>
          ELSE <<>>)
         \o below_regions_of(r, ids, b, k + 1)

\* layers i, i - 1, .., 0
RECURSIVE below_layers(_, _, _)
below_layers(r, object_index, i) ==
    IF i < 0 THEN <<>>
    ELSE below_regions_of(r, r.layers[i + 1].objects,
                          r.objects[object_index + 1].previous_bounds, 1)
         \o below_layers(r, object_index, i - 1)

\* get_regions_below_object that starts at the object's own layer
get_regions_below_object_own_layer(r, object_index, layer_index) ==
    [below_my_previous |-> below_layers(r, object_index, layer_index)]

get_regions_below_object(r, object_index, layer_index) ==
    IF layer_index = 0
    THEN [below_my_previous |-> <<>>]
    ELSE [below_my_previous |-> below_layers(r, object_index, layer_index - 1)]

\* ------------------------------------------------------------- sampling
\* interpolate_nearest: the texel nearest to (px, py), or the default when
\* the point is outside the texture
interpolate_nearest(texture_data, texture_width, texture_height, px, py, default) ==
    IF /\ px >= 0 /\ px < texture_width
       /\ py >= 0 /\ py < texture_height
       /\ get_red_index(px, py, texture_width) < Len(texture_data)
    THEN texture_data[get_red_index(px, py, texture_width) + 1]
    ELSE default

\* interpolate_nearest_pixel: the flat colour inside width x height, or the
\* default outside
interpolate_nearest_pixel(pixel, width, height, px, py, default) ==
    IF px >= 0 /\ px < width /\ py >= 0 /\ py < height
    THEN pixel
    ELSE default

\* a sampling result: the program panicked, or an Option<RgbaPixel>
Sampled(panic, pix) == [panic |-> panic, pix |-> pix]

get_pixel_from_object_at_rotated(r, object_index, transform, x, y) ==
    LET obj == r.objects[object_index + 1] IN
    IF obj.texture_index >= Len(r.textures)
    THEN Sampled(TRUE, None)
    ELSE LET texture == r.textures[obj.texture_index + 1]
             pt == compute_pt(transform.matrix, x - obj.current_bounds.x,
                              y - obj.current_bounds.y)
         IN  Sampled(FALSE, Some(interpolate_nearest(texture.data, texture.width,
                                     texture.height, pt[1], pt[2], PIXEL_BLANK)))

get_pixel_from_object_at(r, object_index, x, y) ==
    LET obj == r.objects[object_index + 1] IN
    IF IsSome(obj.transform)
    THEN get_pixel_from_object_at_rotated(r, object_index, Unwrap(obj.transform), x, y)
    ELSE IF IsSome(obj.texture_color)
    THEN Sampled(FALSE, obj.texture_color)
    ELSE IF obj.texture_index >= Len(r.textures)
    THEN Sampled(TRUE, None)
    ELSE IF x < obj.current_bounds.x \/ y < obj.current_bounds.y
    THEN Sampled(TRUE, None)
    ELSE LET texture == r.textures[obj.texture_index + 1]
             local_x == x - obj.current_bounds.x
             local_y == y - obj.current_bounds.y
             red_index == get_red_index(local_x, local_y, obj.current_bounds.w)
         IN  IF red_index < Len(texture.data)
             THEN Sampled(FALSE, Some(texture.data[red_index + 1]))
             ELSE Sampled(FALSE, None)

\* ------------------------------------------------------ writes and marks
\* the calls of an operation in the order they are made: steps is the log
step(r, call) == [r EXCEPT !.steps = Append(@, call)]

\* Portioner::take_pixel as the renderer sees it: the call is recorded
take_pixel(r, x, y) ==
    [r EXCEPT !.taken = @ \cup {<<x, y>>},
              !.steps = Append(@, <<"take_pixel", x, y>>)]

\* pixel_buffer[red_index..red_index + 3] = pixel for the pixel at (x, y);
\* indexing past the end of the buffer panics
set_pixel(r, x, y, pixel) ==
    LET red_index == get_red_index(x, y, Width) IN
    IF red_index >= Len(r.pixel_buffer)
    THEN [r EXCEPT !.panicked = TRUE]
    ELSE [r EXCEPT !.pixel_buffer[red_index + 1] = pixel,
                   !.written = @ \cup {<<x, y>>},
                   !.steps = Append(@, <<"set_pixel", x, y>>)]

\* ---------------------------------------------------------------- clear
\* the first below region containing (x, y), 0 when there is none
RECURSIVE first_below(_, _, _, _)
first_below(below, x, y, k) ==
    IF k > Len(below) THEN 0
    ELSE IF contains_u32(below[k].region, x, y) THEN k
    ELSE first_below(below, x, y, k + 1)

\* clear_pixels_from_below_object: the renderer afterwards and the returned bool
clear_pixels_from_below_object(r, x, y, skip_below) ==
    LET k == first_below(skip_below.below_my_previous, x, y, 1) IN
    IF k = 0 THEN [r |-> r, ret |-> FALSE]
    ELSE LET got == get_pixel_from_object_at(
                        r, skip_below.below_my_previous[k].region_belongs_to, x, y)
         IN  IF got.panic THEN [r |-> [r EXCEPT !.panicked = TRUE], ret |-> FALSE]
             ELSE IF IsSome(got.pix)
             THEN IF Unwrap(got.pix).a = 0
                  THEN [r |-> r, ret |-> FALSE]
                  ELSE [r |-> set_pixel(r, x, y, Unwrap(got.pix)), ret |-> TRUE]
             ELSE [r |-> r, ret |-> FALSE]

\* the body of the loop of clear_object_previous_bounds at (j, i)
clear_point(r, skip_above, skip_below, j, i) ==
    IF should_skip_point(skip_above.above_my_previous, j, i) THEN r
    ELSE LET r1 == take_pixel(r, j, i)
             red_index == get_red_index(j, i, Width)
             should_try_clear_below == skip_below.below_my_previous # <<>>
             tried == IF should_try_clear_below
                      THEN clear_pixels_from_below_object(r1, j, i, skip_below)
                      ELSE [r |-> r1, ret |-> FALSE]
         IN  IF tried.r.panicked \/ tried.ret THEN tried.r
             ELSE IF red_index >= Len(r1.clear_buffer)
             THEN [r1 EXCEPT !.panicked = TRUE]
             ELSE set_pixel(tried.r, j, i, r1.clear_buffer[red_index + 1])

\* for i in min_y..max_y { for j in min_x..max_x { .. } }, from the n-th point
RECURSIVE clear_loop(_, _, _, _, _, _, _, _)
clear_loop(r, skip_above, skip_below, min_y, max_y, min_x, max_x, n) ==
    IF r.panicked \/ max_x <= min_x \/ n >= (max_x - min_x) * (max_y - min_y)
    THEN r
    ELSE clear_loop(clear_point(r, skip_above, skip_below,
                                min_x + (n % (max_x - min_x)),
                                min_y + (n \div (max_x - min_x))),
                    skip_above, skip_below, min_y, max_y, min_x, max_x, n + 1)

\* clear_object_previous_bounds that clears the whole buffer
clear_object_previous_bounds_all(r, skip_above, skip_below, min_y, max_y, min_x, max_x) ==
    clear_loop(step(r, <<"clear_object_previous_bounds">>),
               skip_above, skip_below, 0, Height, 0, Width, 0)

clear_object_previous_bounds(r, skip_above, skip_below, min_y, max_y, min_x, max_x) ==
    clear_loop(step(r, <<"clear_object_previous_bounds">>),
               skip_above, skip_below, min_y, max_y, min_x, max_x, 0)

\* the body of the loop of draw_pixel without the take_pixel call
draw_pixel_point_unreported(r, pixel, skip_above, j, i) ==
    IF should_skip_point(skip_above.above_my_current, j, i) THEN r
    ELSE set_pixel(r, j, i, pixel)

\* ---------------------------------------------------------------- paint
\* the body of the loop of draw_pixel (no transform) at (j, i)
draw_pixel_point(r, pixel, skip_above, j, i) ==
    IF should_skip_point(skip_above.above_my_current, j, i) THEN step(r, <<"skip", j, i>>)
    ELSE set_pixel(take_pixel(r, j, i), j, i, pixel)

RECURSIVE draw_pixel_loop(_, _, _, _, _, _, _, _)
draw_pixel_loop(r, pixel, skip_above, min_y, max_y, min_x, max_x, n) ==
    IF r.panicked \/ max_x <= min_x \/ n >= (max_x - min_x) * (max_y - min_y)
    THEN r
    ELSE draw_pixel_loop(draw_pixel_point(r, pixel, skip_above,
                                          min_x + (n % (max_x - min_x)),
                                          min_y + (n \div (max_x - min_x))),
                         pixel, skip_above, min_y, max_y, min_x, max_x, n + 1)

\* the body of the loop of draw_pixel_rotated at (j, i)
draw_pixel_rotated_point(r, pixel, skip_above, transform, j, i, shift_x, shift_y, width, height) ==
    IF should_skip_point(skip_above.above_my_current, j, i) THEN step(r, <<"skip", j, i>>)
    ELSE LET r1 == take_pixel(r, j, i)
             pt == compute_pt(transform, j - shift_x, i - shift_y)
             pix == interpolate_nearest_pixel(pixel, width, height, pt[1], pt[2], PIXEL_BLANK)
         IN  IF pix.a = 0 THEN r1 ELSE set_pixel(r1, j, i, pix)

RECURSIVE draw_pixel_rotated_loop(_, _, _, _, _, _, _, _, _, _, _, _, _)
draw_pixel_rotated_loop(r, pixel, skip_above, transform, min_y, max_y, min_x, max_x, shift_x, shift_y, width, height, n) ==
    IF r.panicked \/ max_x <= min_x \/ n >= (max_x - min_x) * (max_y - min_y)
    THEN r
    ELSE draw_pixel_rotated_loop(
             draw_pixel_rotated_point(r, pixel, skip_above, transform,
                                      min_x + (n % (max_x - min_x)),
                                      min_y + (n \div (max_x - min_x)),
                                      shift_x, shift_y, width, height),
             pixel, skip_above, transform, min_y, max_y, min_x, max_x,
             shift_x, shift_y, width, height, n + 1)

draw_pixel_rotated(r, pixel, skip_above, transform, min_y, max_y, min_x, max_x, shift_x, shift_y, width, height) ==
    draw_pixel_rotated_loop(r, pixel, skip_above, transform, min_y, max_y, min_x, max_x,
                            shift_x, shift_y, width, height, 0)

draw_pixel(r, pixel, skip_above, transform, min_y, max_y, min_x, max_x, width, height) ==
    IF IsSome(transform)
    THEN LET transform_bounds == Unwrap(transform).bounds.bounding_rect
             tmin_x == transform_bounds.x
             tmax_x == tmin_x + transform_bounds.w
             tmin_y == transform_bounds.y
             tmax_y == tmin_y + transform_bounds.h
         IN  draw_pixel_rotated(step(r, <<"draw_pixel">>), pixel, skip_above,
                                Unwrap(transform).matrix,
                                tmin_y, tmax_y, tmin_x, tmax_x, min_x, min_y, width, height)
    ELSE draw_pixel_loop(step(r, <<"draw_pixel">>), pixel, skip_above,
                         min_y, max_y, min_x, max_x, 0)

\* the body of the loop of draw_exact_rotated at (j, i)
draw_exact_rotated_point(r, texture, skip_above, transform, j, i, shift_x, shift_y) ==
    IF should_skip_point(skip_above.above_my_current, j, i) THEN step(r, <<"skip", j, i>>)
    ELSE LET r1 == take_pixel(r, j, i)
             pt == compute_pt(transform, j - shift_x, i - shift_y)
             pix == interpolate_nearest(texture.data, texture.width, texture.height,
                                        pt[1], pt[2], PIXEL_BLANK)
         IN  IF pix.a = 0 THEN r1 ELSE set_pixel(r1, j, i, pix)

RECURSIVE draw_exact_rotated_loop(_, _, _, _, _, _, _, _, _, _, _)
draw_exact_rotated_loop(r, texture, skip_above, transform, min_y, max_y, min_x, max_x, shift_x, shift_y, n) ==
    IF r.panicked \/ max_x <= min_x \/ n >= (max_x - min_x) * (max_y - min_y)
    THEN r
    ELSE draw_exact_rotated_loop(
             draw_exact_rotated_point(r, texture, skip_above, transform,
                                      min_x + (n % (max_x - min_x)),
                                      min_y + (n \div (max_x - min_x)),
                                      shift_x, shift_y),
             texture, skip_above, transform, min_y, max_y, min_x, max_x,
             shift_x, shift_y, n + 1)

draw_exact_rotated(r, texture_index, skip_above, transform, min_y, max_y, min_x, max_x, shift_x, shift_y) ==
    IF texture_index >= Len(r.textures)
    THEN [r EXCEPT !.panicked = TRUE]
    ELSE draw_exact_rotated_loop(r, r.textures[texture_index + 1], skip_above, transform,
                                 min_y, max_y, min_x, max_x, shift_x, shift_y, 0)

\* the body of the loop of draw_exact (no transform) at (j, i), the n-th
\* point: item_pixel_index is n pixels into the texture
draw_exact_point(r, item_pixels, skip_above, j, i, n) ==
    IF n >= Len(item_pixels) THEN [r EXCEPT !.panicked = TRUE]
    ELSE IF item_pixels[n + 1].a = 0 THEN r
    ELSE IF should_skip_point(skip_above.above_my_current, j, i)
    THEN step(r, <<"skip", j, i>>)
    ELSE set_pixel(take_pixel(r, j, i), j, i, item_pixels[n + 1])

RECURSIVE draw_exact_loop(_, _, _, _, _, _, _, _)
draw_exact_loop(r, item_pixels, skip_above, min_y, max_y, min_x, max_x, n) ==
    IF r.panicked \/ max_x <= min_x \/ n >= (max_x - min_x) * (max_y - min_y)
    THEN r
    ELSE draw_exact_loop(draw_exact_point(r, item_pixels, skip_above,
                                          min_x + (n % (max_x - min_x)),
                                          min_y + (n \div (max_x - min_x)), n),
                         item_pixels, skip_above, min_y, max_y, min_x, max_x, n + 1)

draw_exact(r, texture_index, skip_above, transform, min_y, max_y, min_x, max_x) ==
    IF IsSome(transform)
    THEN LET transform_bounds == Unwrap(transform).bounds.bounding_rect
             tmin_x == transform_bounds.x
             tmax_x == tmin_x + transform_bounds.w
             tmin_y == transform_bounds.y
             tmax_y == tmin_y + transform_bounds.h
         IN  draw_exact_rotated(step(r, <<"draw_exact">>), texture_index, skip_above,
                                Unwrap(transform).matrix,
                                tmin_y, tmax_y, tmin_x, tmax_x, min_x, min_y)
    ELSE IF texture_index >= Len(r.textures)
    THEN [r EXCEPT !.panicked = TRUE]
    ELSE draw_exact_loop(step(r, <<"draw_exact">>), r.textures[texture_index + 1].data,
                         skip_above, min_y, max_y, min_x, max_x, 0)

\* previous_bounds := current_bounds, whatever the transform
set_previous_bounds_current(r, object_index) ==
    IF r.panicked THEN r
    ELSE [r EXCEPT !.objects[object_index + 1].previous_bounds =
                       r.objects[object_index + 1].current_bounds]

\* previous_bounds := get_bounds(), unless the draw panicked before
set_previous_bounds(r, object_index) ==
    IF r.panicked THEN r
    ELSE [r EXCEPT !.objects[object_index + 1].previous_bounds =
                       get_bounds(r.objects[object_index + 1]),
                   !.steps = Append(@, <<"previous_bounds", object_index>>)]

\* draw_object that clears the previous footprint on the first draw as well
draw_object_clear_always(r, object_index, skip_above, skip_below) ==
    LET object == r.objects[object_index + 1]
        previous_bounds == object.previous_bounds
        is_first_time == object.initial_render
        prev_x == previous_bounds.x
        prev_y == previous_bounds.y
        prev_w == previous_bounds.w
        prev_h == previous_bounds.h
        r0 == [r EXCEPT !.drawn = Append(@, object_index),
                        !.steps = Append(@, <<"draw_object", object_index, is_first_time>>)]
        r1 == clear_object_previous_bounds(
                  [r0 EXCEPT !.objects[object_index + 1].initial_render = FALSE],
                  skip_above, skip_below,
                  prev_y, prev_y + prev_h, prev_x, prev_x + prev_w)
        now == r1.objects[object_index + 1].current_bounds
    IN  IF r1.panicked THEN r1
        ELSE IF IsSome(object.texture_color)
        THEN IF Unwrap(object.texture_color).a = 0
             THEN set_previous_bounds(r1, object_index)
             ELSE set_previous_bounds(
                      draw_pixel(r1, Unwrap(object.texture_color), skip_above,
                                 r1.objects[object_index + 1].transform,
                                 now.y, now.y + now.h, now.x, now.x + now.w,
                                 now.w, now.h),
                      object_index)
        ELSE set_previous_bounds(
                 draw_exact(r1, object.texture_index, skip_above,
                            r1.objects[object_index + 1].transform,
                            now.y, now.y + now.h, now.x, now.x + now.w),
                 object_index)

draw_object(r, object_index, skip_above, skip_below) ==
    LET object == r.objects[object_index + 1]
        previous_bounds == object.previous_bounds
        is_first_time == object.initial_render
        prev_x == previous_bounds.x
        prev_y == previous_bounds.y
        prev_w == previous_bounds.w
        prev_h == previous_bounds.h
        r0 == [r EXCEPT !.drawn = Append(@, object_index),
                        !.steps = Append(@, <<"draw_object", object_index, is_first_time>>)]
        r1 == IF ~is_first_time
              THEN clear_object_previous_bounds(r0, skip_above, skip_below,
                       prev_y, prev_y + prev_h, prev_x, prev_x + prev_w)
              ELSE [r0 EXCEPT !.objects[object_index + 1].initial_render = FALSE]
        now == r1.objects[object_index + 1].current_bounds
    IN  IF r1.panicked THEN r1
        ELSE IF IsSome(object.texture_color)
        THEN IF Unwrap(object.texture_color).a = 0
             THEN set_previous_bounds(r1, object_index)
             ELSE set_previous_bounds(
                      draw_pixel(r1, Unwrap(object.texture_color), skip_above,
                                 r1.objects[object_index + 1].transform,
                                 now.y, now.y + now.h, now.x, now.x + now.w,
                                 now.w, now.h),
                      object_index)
        ELSE set_previous_bounds(
                 draw_exact(r1, object.texture_index, skip_above,
                            r1.objects[object_index + 1].transform,
                            now.y, now.y + now.h, now.x, now.x + now.w),
                 object_index)

\* draw_all_layers that takes only the first entry of each updates list
draw_object_indices_first(ls, i) ==
    LET RECURSIVE firsts(_)
        firsts(n) ==
            IF n >= Len(ls) THEN <<>>
            ELSE (IF ls[n + 1].updates = <<>> THEN <<>>
                  ELSE << <<n, ls[n + 1].updates[1]>> >>) \o firsts(n + 1)
    IN  firsts(i)

\* ------------------------------------------------------- draw_all_layers
\* the (layer_index, object_index) pairs drained from the updates lists, in
\* layer order
RECURSIVE draw_object_indices(_, _)
draw_object_indices(ls, i) ==
    IF i >= Len(ls) THEN <<>>
    ELSE [k \in 1..Len(ls[i + 1].updates) |-> <<i, ls[i + 1].updates[k]>>]
         \o draw_object_indices(ls, i + 1)

\* draw_all_layers that iterates the updates without draining them
drain_updates_keep(ls) == ls

drain_updates(ls) == [i \in 1..Len(ls) |-> [ls[i] EXCEPT !.updates = <<>>]]

RECURSIVE draw_each(_, _, _)
draw_each(r, todo, k) ==
    IF r.panicked \/ k > Len(todo) THEN r
    ELSE LET layer_index == todo[k][1]
             object_index == todo[k][2]
             above_regions == get_regions_above_object(r, object_index, layer_index)
             below_regions == get_regions_below_object(r, object_index, layer_index)
         IN  draw_each(draw_object(r, object_index, above_regions, below_regions),
                       todo, k + 1)

draw_all_layers(r) ==
    draw_each([r EXCEPT !.layers = drain_updates(r.layers)],
              draw_object_indices(r.layers, 0), 1)


\* -------------------------------------------------------------- TightVec
\* TightVec<T>: buf is the Vec of slots, next the VecDeque of indices to
\* fill first; panicked records an index past the end of buf.
\* TightVec::default()
TightVec == [buf |-> <<>>, next |-> <<>>, panicked |-> FALSE]

\* T::default() of the stored type (SimpleData::Empty)
Empty == "Empty"

\* IndexMut: buf[index] = value, a panic when index is past the end
index_mut(t, index, value) ==
    IF index < Len(t.buf)
    THEN [t EXCEPT !.buf[index + 1] = value]
    ELSE [t EXCEPT !.panicked = TRUE]

insert(t, value) ==
    IF t.next # <<>>
    THEN index_mut([t EXCEPT !.next = Tail(@)], Head(t.next), value)
    ELSE [t EXCEPT !.buf = Append(@, value)]

len(t) == Len(t.buf)

unused_len(t) == Len(t.next)

\* len() - unused_len() in usize: the difference, or an underflow (a panic
\* in a debug build, a wrapped value in a release build)
used_len(t) ==
    IF len(t) >= unused_len(t)
    THEN [underflow |-> FALSE, ret |-> len(t) - unused_len(t)]
    ELSE [underflow |-> TRUE, ret |-> 0]


\* remove as Vec::remove would do it: the slot is taken out and the later
\* slots move down
remove_shifting(t, index) ==
    IF len(t) > index
    THEN [t EXCEPT !.buf = SubSeq(@, 1, index) \o SubSeq(@, index + 2, Len(@)),
                   !.next = Append(@, index)]
    ELSE t

\* remove without the length check
remove_unguarded(t, index) ==
    index_mut([t EXCEPT !.next = Append(@, index)], index, Empty)

remove(t, index) ==
    IF len(t) > index
    THEN index_mut([t EXCEPT !.next = Append(@, index)], index, Empty)
    ELSE t


\* ------------------------------------------------------------- Portioner
\* Portioner: a GridRows x GridCols matrix of booleans over a buffer of
\* (GridCols * ColWidth) x (GridRows * RowHeight) pixels; grid[row][col]
\* is TRUE when a pixel of the cell was taken since the last flush.
\* Portioner::new: no cell is active
Portioner ==
    [grid |-> [row \in 0..(GridRows - 1) |-> [col \in 0..(GridCols - 1) |-> FALSE]]]

\* Portioner::take_pixel: the cell of the pixel becomes active; a pixel
\* outside the grid is reported and ignored
portioner_take_pixel(p, x, y) ==
    LET row == y \div RowHeight
        col == x \div ColWidth
    IN  IF row < GridRows /\ col < GridCols
        THEN [p EXCEPT !.grid[row][col] = TRUE]
        ELSE p

\* a candidate never merged with an earlier rectangle
merge_candidate_never(out, k, cand) == Append(out, cand)

\* the backward walk of flush_portions over the rectangles emitted so far,
\* from entry k: an entry whose bottom edge touches the candidate's row and
\* whose x and w match is made one row higher; the walk ends, and the
\* candidate is emitted, at the first entry that does not touch the row
RECURSIVE merge_candidate(_, _, _)
merge_candidate(out, k, cand) ==
    IF k = 0 THEN Append(out, cand)
    ELSE IF out[k].y + out[k].h = cand.y
    THEN IF out[k].x = cand.x /\ out[k].w = cand.w
         THEN [out EXCEPT ![k].h = @ + 1]
         ELSE merge_candidate(out, k - 1, cand)
    ELSE Append(out, cand)

\* the scan of one grid row from column col, left to right; start is the
\* first column of the run being collected, -1 outside a run
RECURSIVE scan_row(_, _, _, _, _)
scan_row(p, row, col, start, out) ==
    LET emitted == merge_candidate(out, Len(out), Rect(start, row, col - start, 1)) IN
    IF col = GridCols
    THEN IF start >= 0 THEN emitted ELSE out
    ELSE IF p.grid[row][col]
    THEN scan_row(p, row, col + 1, IF start >= 0 THEN start ELSE col, out)
    ELSE scan_row(p, row, col + 1, -1, IF start >= 0 THEN emitted ELSE out)

RECURSIVE scan_rows(_, _, _)
scan_rows(p, row, out) ==
    IF row = GridRows THEN out
    ELSE scan_rows(p, row + 1, scan_row(p, row, 0, -1, out))

\* flush_portions without the reset of the grid
flush_portions_keep(p) == [p |-> p, ret |-> scan_rows(p, 0, <<>>)]

\* Portioner::flush_portions: the rectangles, and the grid reset
flush_portions(p) == [p |-> Portioner, ret |-> scan_rows(p, 0, <<>>)]

\* ------------------------------------------------------------ operations
\* the sizes the model keeps the state within: the dirty lists are capped,
\* an object's origin stays inside the buffer, and a tilted bounding rect
\* is not shifted below zero (its u32 coordinates would underflow)
WithinCaps(r) ==
    /\ \A i \in 1..Len(r.layers) : Len(r.layers[i].updates) <= MaxUpdates
    /\ \A k \in 1..Len(r.objects) :
          /\ r.objects[k].current_bounds.x < Width
          /\ r.objects[k].current_bounds.y < Height
          /\ IsSome(r.objects[k].transform) =>
                /\ Unwrap(r.objects[k].transform).bounds.bounding_rect.x >= 0
                /\ Unwrap(r.objects[k].transform).bounds.bounding_rect.y >= 0

\* the operation's name and, for create_object, the id it returned
Op(name, obj) == [name |-> name, obj |-> obj]

\* the renderer becomes r, by operation op
Commit(r, op) ==
    /\ ~panicked
    /\ WithinCaps(r)
    /\ pixel_buffer' = r.pixel_buffer
    /\ clear_buffer' = r.clear_buffer
    /\ textures' = r.textures
    /\ layers' = r.layers
    /\ objects' = r.objects
    /\ panicked' = r.panicked
    /\ drawn' = r.drawn
    /\ written' = r.written
    /\ taken' = r.taken
    /\ last_op' = op
    /\ UNCHANGED <<tvars, pvars>>

ObjectIds == 0..(Len(objects) - 1)

CreateObjectFromColor(layer_index, bounds, color) ==
    LET res == create_object(Renderer, layer_index, bounds, None, Some(color))
    IN  Commit(res.r, Op("create_object", res.ret))

CreateObjectFromTexture(layer_index, bounds, texture) ==
    LET res == create_object(Renderer, layer_index, bounds, Some(texture), None)
    IN  Commit(res.r, Op("create_object", res.ret))

SetObjectRotation(object_index, degrees) ==
    Commit(set_object_rotation(Renderer, object_index, degrees),
           Op("set_object_rotation", 0))

MoveObjectXBy(object_index, by) ==
    Commit(move_object_x_by(Renderer, object_index, by),
           Op("move_object_x_by", 0))

MoveObjectYBy(object_index, by) ==
    Commit(move_object_y_by(Renderer, object_index, by),
           Op("move_object_y_by", 0))

DrawAllLayers ==
    Commit(draw_all_layers(Renderer), Op("draw_all_layers", 0))

\* ------------------------------------------------------- specification
\* Spec: every operation, in any order, on at most MaxObjects objects of
\* the menu below, up to MaxOps operations.
Keys == 0..MaxKey
Angles == {0, 90, -90}
Deltas == {-1, 1}
CreateRects == {Rect(0, 0, 2, 2), Rect(1, 0, 1, 1)}
Colors == {PIXEL_RED, PIXEL_GHOST}

Init ==
    /\ pixel_buffer = new_ex.pixel_buffer
    /\ clear_buffer = new_ex.clear_buffer
    /\ textures = new_ex.textures
    /\ layers = new_ex.layers
    /\ objects = new_ex.objects
    /\ panicked = FALSE
    /\ last_op = Op("new_ex", 0)
    /\ drawn = <<>>
    /\ written = {}
    /\ taken = {}
    /\ ops = 0
    /\ pc = "free"
    /\ saved = <<>>
    /\ tightvec = TightVec
    /\ freed = <<>>
    /\ portioner = Portioner
    /\ portions = <<>>

\* one more operation, while fewer than MaxOps have been made
Tick ==
    /\ ops < MaxOps
    /\ ops' = ops + 1
    /\ UNCHANGED <<pc, saved>>

OpCreate ==
    /\ Tick
    /\ Len(objects) < MaxObjects
    /\ \E key \in Keys, bounds \in CreateRects, color \in Colors :
          CreateObjectFromColor(key, bounds, color)

OpRotate == Tick /\ \E id \in ObjectIds, degrees \in Angles : SetObjectRotation(id, degrees)

OpMoveX == Tick /\ \E id \in ObjectIds, by \in Deltas : MoveObjectXBy(id, by)

OpMoveY == Tick /\ \E id \in ObjectIds, by \in Deltas : MoveObjectYBy(id, by)

OpDraw == Tick /\ DrawAllLayers

Next == OpCreate \/ OpRotate \/ OpMoveX \/ OpMoveY \/ OpDraw

Spec == Init /\ [][Next]_vars

\* --------------------------------------------------- occlusion scenes
\* SpecOcclusion: opaque, unrotated flat-colour objects, one per layer, the
\* layers created in ascending order of key, every footprint inside the
\* buffer; moves and draws in any order and number.
InsideBuffer(b) == b.x + b.w <= Width /\ b.y + b.h <= Height

\* the colour of the k-th object of a scene: the renderer copies a colour
\* and reads its alpha only, so each object gets a colour of its own
OpaqueColors == <<PIXEL_RED, PIXEL_GREEN, PIXEL_BLUE>>
SceneColorOf(k) ==
    IF k <= Len(OpaqueColors) THEN OpaqueColors[k] ELSE RgbaPixel(k, 255)

\* key is at least every key in use, and no object is on its layer yet
AscendingKey(key) ==
    \A i \in 1..Len(layers) :
        \/ layers[i].index < key
        \/ layers[i].index = key /\ layers[i].objects = <<>>

OccCreate ==
    /\ Len(objects) < MaxObjects
    /\ \E key \in Keys, bounds \in CreateRects :
          /\ AscendingKey(key)
          /\ CreateObjectFromColor(key, bounds, SceneColorOf(Len(objects) + 1))
    /\ UNCHANGED svars

OccMoveX ==
    /\ \E id \in ObjectIds, by \in Deltas :
          /\ InsideBuffer(move_object_x_by(Renderer, id, by).objects[id + 1].current_bounds)
          /\ MoveObjectXBy(id, by)
    /\ UNCHANGED svars

OccMoveY ==
    /\ \E id \in ObjectIds, by \in Deltas :
          /\ InsideBuffer(move_object_y_by(Renderer, id, by).objects[id + 1].current_bounds)
          /\ MoveObjectYBy(id, by)
    /\ UNCHANGED svars

OccDraw == DrawAllLayers /\ UNCHANGED svars

NextOcclusion == OccCreate \/ OccMoveX \/ OccMoveY \/ OccDraw

SpecOcclusion == Init /\ [][NextOcclusion]_vars

\* the ids of the objects whose current_bounds contains (x, y)
ObjectsAt(x, y) ==
    {id \in ObjectIds : contains_u32(objects[id + 1].current_bounds, x, y)}

\* the human index of the layer of object id
KeyOf(id) == layers[objects[id + 1].layer_index + 1].index

\* the colour the scene shows at (x, y): that of the object of the highest
\* layer over the pixel, the clear value where there is none
SceneColor(x, y) ==
    IF ObjectsAt(x, y) = {}
    THEN clear_buffer[get_red_index(x, y, Width) + 1]
    ELSE LET top == CHOOSE id \in ObjectsAt(x, y) :
                        \A other \in ObjectsAt(x, y) : KeyOf(other) <= KeyOf(id)
         IN  Unwrap(objects[top + 1].texture_color)

\* C1: in an occlusion scene, after draw_all_layers every pixel of the
\* buffer holds the colour of the highest-layer object whose current_bounds
\* contains it, or the clear value if no object covers it.
C1_OcclusionCorrect ==
    last_op.name = "draw_all_layers" =>
        \A x \in 0..(Width - 1), y \in 0..(Height - 1) :
            pixel_buffer[get_red_index(x, y, Width) + 1] = SceneColor(x, y)

\* C1 witness: a draw that cleared a pixel its object had left, in a scene
\* where a pixel is under two objects
C1_Witness ==
    /\ last_op.name = "draw_all_layers"
    /\ ~panicked
    /\ \E c \in written : ObjectsAt(c[1], c[2]) = {}
    /\ \E x \in 0..(Width - 1), y \in 0..(Height - 1) : Cardinality(ObjectsAt(x, y)) = 2

\* ------------------------------------------------------ draw_all_layers
IsDraw(op) == op.name = "draw_all_layers"
IsMoveOrRotate(op) ==
    op.name \in {"move_object_x_by", "move_object_y_by", "set_object_rotation"}

\* the number of positions of seq that hold v
Count(seq, v) == Cardinality({k \in 1..Len(seq) : seq[k] = v})

\* the number of entries of the updates lists of ls that name object id
RECURSIVE Marks(_, _, _)
Marks(ls, id, i) ==
    IF i > Len(ls) THEN 0
    ELSE Count(ls[i].updates, id) + Marks(ls, id, i + 1)

\* C2: a draw_all_layers that returns leaves every updates list empty, and
\* a draw_all_layers right after another one draws no object, writes and
\* changes no pixel, changes no object and reports no pixel.
C2_DrainedAndIdle ==
    [][IsDraw(last_op') /\ ~panicked' =>
          /\ \A i \in 1..Len(layers') : layers'[i].updates = <<>>
          /\ IsDraw(last_op) =>
                /\ drawn' = <<>>
                /\ written' = {}
                /\ taken' = {}
                /\ pixel_buffer' = pixel_buffer
                /\ objects' = objects]_vars

\* C2 witness: a draw that drew nothing although the scene has a painted
\* object: the draw before it had emptied the updates lists
C2_Witness ==
    /\ IsDraw(last_op)
    /\ ~panicked
    /\ drawn = <<>>
    /\ objects # <<>>
    /\ \E k \in 1..Len(pixel_buffer) : pixel_buffer[k] # clear_buffer[k]

\* C3 (as stated): within one draw_all_layers each object is handed to
\* draw_object at most once.
C3_DrawnAtMostOnce ==
    IsDraw(last_op) => \A id \in ObjectIds : Count(drawn, id) <= 1

\* C3 (amended): one draw_all_layers that returns hands each object to
\* draw_object once per entry naming it in the updates lists, so as many
\* times as it was marked dirty since the previous call.
C3_DrawnOncePerMark ==
    [][IsDraw(last_op') /\ ~panicked' =>
          \A id \in ObjectIds : Count(drawn', id) = Marks(layers, id, 1)]_vars

\* C3 witness: a draw that drew one object twice
C3_Witness ==
    /\ IsDraw(last_op)
    /\ ~panicked
    /\ \E id \in ObjectIds : Count(drawn, id) = 2

\* the coordinates of the pixels that differ between two buffers
Changed(before, after) ==
    {c \in (0..(Width - 1)) \X (0..(Height - 1)) :
        before[get_red_index(c[1], c[2], Width) + 1]
            # after[get_red_index(c[1], c[2], Width) + 1]}

\* C4: every pixel draw_all_layers writes, clearing or painting, was reported
\* by take_pixel with the coordinates of the write, and every pixel it
\* changes was written that way.
C4_WritesAreReported ==
    [][IsDraw(last_op') =>
          /\ written' \subseteq taken'
          /\ \A c \in Changed(pixel_buffer, pixel_buffer') :
                \E w \in written' :
                    get_red_index(w[1], w[2], Width) = get_red_index(c[1], c[2], Width)]_vars

\* C4 witness: a draw of an object that had been drawn before: its previous
\* footprint was cleared and its current one painted
C4_Witness ==
    /\ IsDraw(last_op)
    /\ ~panicked
    /\ Cardinality(written) >= 5
    /\ \E id \in ObjectIds :
          /\ Count(drawn, id) = 1
          /\ objects[id + 1].current_bounds.x > 0

\* C5: when draw_all_layers returns, the previous_bounds of every object it
\* drew equals the object's get_bounds(), zero-alpha colours included; a
\* move or a rotation leaves every previous_bounds as it was.
C5_PreviousBounds ==
    [][/\ IsDraw(last_op') /\ ~panicked' =>
             \A k \in 1..Len(drawn') :
                 objects'[drawn'[k] + 1].previous_bounds = get_bounds(objects'[drawn'[k] + 1])
       /\ IsMoveOrRotate(last_op') =>
             \A id \in ObjectIds :
                 objects'[id + 1].previous_bounds = objects[id + 1].previous_bounds]_vars

\* C5 witness: a draw of a rotated zero-alpha object whose tilted bounding
\* rect, now its previous_bounds, is not its current_bounds
C5_Witness ==
    /\ IsDraw(last_op)
    /\ ~panicked
    /\ \E k \in 1..Len(drawn) :
          LET o == objects[drawn[k] + 1] IN
          /\ IsSome(o.transform)
          /\ o.texture_color = Some(PIXEL_GHOST)
          /\ o.previous_bounds = Unwrap(o.transform).bounds.bounding_rect
          /\ o.previous_bounds # o.current_bounds

\* ---------------------------------------------------------- create_object
\* SpecLayers: up to MaxCreates objects are created, on any keys in any
\* order, and drawn.
LayersCreate ==
    /\ Len(objects) < MaxCreates
    /\ \E key \in Keys, bounds \in CreateRects, color \in Colors :
          CreateObjectFromColor(key, bounds, color)
    /\ UNCHANGED svars

LayersDraw == DrawAllLayers /\ UNCHANGED svars

NextLayers == LayersCreate \/ LayersDraw

SpecLayers == Init /\ [][NextLayers]_vars

IsCreate(op) == op.name = "create_object"

\* the number of entries of the objects lists of ls that name object id
RECURSIVE Filed(_, _, _)
Filed(ls, id, i) ==
    IF i > Len(ls) THEN 0
    ELSE Count(ls[i].objects, id) + Filed(ls, id, i + 1)

HasKey(ls, key) == \E i \in 1..Len(ls) : ls[i].index = key

\* C6: create_object of a flat-colour object returns an id no object had;
\* the new object has initial_render = true, previous_bounds =
\* current_bounds = the given bounds and no transform; its id is the last
\* entry of the objects list and of the updates list of its layer and is
\* nowhere else in these lists; no texture slot is allocated; a key that
\* had a layer adds none.
C6_CreateObject ==
    [][\A key \in Keys, bounds \in CreateRects, color \in Colors :
          IsCreate(last_op') /\ CreateObjectFromColor(key, bounds, color) =>
              LET id == last_op'.obj
                  o == objects'[id + 1]
                  l == layers'[o.layer_index + 1]
              IN  /\ id \notin ObjectIds
                  /\ Len(objects') = Len(objects) + 1
                  /\ \A k \in 1..Len(objects) : objects'[k] = objects[k]
                  /\ o.initial_render
                  /\ o.current_bounds = bounds
                  /\ o.previous_bounds = bounds
                  /\ o.transform = None
                  /\ o.texture_color = Some(color)
                  /\ Filed(layers', id, 1) = 1
                  /\ Marks(layers', id, 1) = 1
                  /\ l.objects[Len(l.objects)] = id
                  /\ l.updates[Len(l.updates)] = id
                  /\ Filed(layers, id, 1) = 0
                  /\ Marks(layers, id, 1) = 0
                  /\ textures' = textures
                  /\ HasKey(layers, key) => Len(layers') = Len(layers)]_vars


\* C7: the layer list is strictly increasing in the layers' human index.
C7_LayersSorted ==
    \A i \in 1..Len(layers), j \in 1..Len(layers) :
        i < j => layers[i].index < layers[j].index

\* C8: for every key k, get_or_make_layer(k) returns the position of a
\* layer whose human index is k; a key that has a layer adds none, a key
\* that has none adds exactly one layer, keyed k.
C8_LayerOfKey ==
    \A k \in Keys :
        LET got == get_or_make_layer(layers, k) IN
        /\ got.ret < Len(got.layers)
        /\ got.layers[got.ret + 1].index = k
        /\ HasKey(layers, k) => got.layers = layers
        /\ ~HasKey(layers, k) => Len(got.layers) = Len(layers) + 1

\* ------------------------------------------------ moving a rotated object
IsMove(op) == op.name \in {"move_object_x_by", "move_object_y_by"}

\* where the bounding rect of the tilted bounds is, relative to current_bounds
TiltedOffset(o) ==
    <<Unwrap(o.transform).bounds.bounding_rect.x - o.current_bounds.x,
      Unwrap(o.transform).bounds.bounding_rect.y - o.current_bounds.y>>

\* C9: a move of a rotated object leaves the offset between the bounding
\* rect of its tilted bounds and its current_bounds as it was.
C9_TiltedFollowsMove ==
    [][IsMove(last_op') =>
          \A id \in ObjectIds :
              IsSome(objects[id + 1].transform) =>
                  /\ IsSome(objects'[id + 1].transform)
                  /\ TiltedOffset(objects'[id + 1]) = TiltedOffset(objects[id + 1])]_vars

\* ------------------------------------------------- rotation round trip
\* SpecRoundTrip: a scene is set up in at most MaxSetup operations and
\* drawn; then one of its objects, unrotated, goes through
\*   set_object_rotation(id, degrees), draw_all_layers,
\*   [move by d, [draw_all_layers]], set_object_rotation(id, 0),
\*   [move by -d], draw_all_layers.
\* saved remembers the buffer before the rotation, the object and the move.
SceneTick ==
    /\ pc = "scene"
    /\ ops < MaxSetup
    /\ ops' = ops + 1
    /\ UNCHANGED <<pc, saved>>

SceneCreate ==
    /\ SceneTick
    /\ Len(objects) < MaxObjects
    /\ \E key \in Keys, bounds \in CreateRects, color \in Colors :
          CreateObjectFromColor(key, bounds, color)

SceneMoveX == SceneTick /\ \E id \in ObjectIds, by \in Deltas : MoveObjectXBy(id, by)

SceneMoveY == SceneTick /\ \E id \in ObjectIds, by \in Deltas : MoveObjectYBy(id, by)

SceneDraw == SceneTick /\ DrawAllLayers

\* every object has been drawn and none is marked dirty
AllDrawn ==
    /\ \A i \in 1..Len(layers) : layers[i].updates = <<>>
    /\ \A k \in 1..Len(objects) : ~objects[k].initial_render

Rotate1 ==
    /\ pc = "scene"
    /\ AllDrawn
    /\ \E id \in ObjectIds, degrees \in Angles \ {0} :
          /\ objects[id + 1].transform = None
          /\ SetObjectRotation(id, degrees)
          /\ saved' = [buffer |-> pixel_buffer, id |-> id, axis |-> "none", by |-> 0]
    /\ pc' = "rotated"
    /\ UNCHANGED ops

Draw1 ==
    /\ pc = "rotated"
    /\ DrawAllLayers
    /\ pc' = "shown"
    /\ UNCHANGED <<ops, saved>>

MoveAway ==
    /\ pc = "shown"
    /\ \E axis \in {"x", "y"}, by \in Deltas :
          /\ IF axis = "x" THEN MoveObjectXBy(saved.id, by) ELSE MoveObjectYBy(saved.id, by)
          /\ saved' = [saved EXCEPT !.axis = axis, !.by = by]
    /\ pc' = "moved"
    /\ UNCHANGED ops

DrawMoved ==
    /\ pc = "moved"
    /\ DrawAllLayers
    /\ pc' = "moved_shown"
    /\ UNCHANGED <<ops, saved>>

Rotate0 ==
    /\ pc \in {"shown", "moved", "moved_shown"}
    /\ SetObjectRotation(saved.id, 0)
    /\ pc' = IF pc = "shown" THEN "back" ELSE "unrotated"
    /\ UNCHANGED <<ops, saved>>

MoveBack ==
    /\ pc = "unrotated"
    /\ IF saved.axis = "x"
       THEN MoveObjectXBy(saved.id, 0 - saved.by)
       ELSE MoveObjectYBy(saved.id, 0 - saved.by)
    /\ pc' = "back"
    /\ UNCHANGED <<ops, saved>>

Draw2 ==
    /\ pc = "back"
    /\ DrawAllLayers
    /\ pc' = "done"
    /\ UNCHANGED <<ops, saved>>

InitRoundTrip ==
    /\ pixel_buffer = new_ex.pixel_buffer
    /\ clear_buffer = new_ex.clear_buffer
    /\ textures = new_ex.textures
    /\ layers = new_ex.layers
    /\ objects = new_ex.objects
    /\ panicked = FALSE
    /\ last_op = Op("new_ex", 0)
    /\ drawn = <<>>
    /\ written = {}
    /\ taken = {}
    /\ ops = 0
    /\ pc = "scene"
    /\ saved = [buffer |-> new_ex.pixel_buffer, id |-> 0, axis |-> "none", by |-> 0]
    /\ tightvec = TightVec
    /\ freed = <<>>
    /\ portioner = Portioner
    /\ portions = <<>>

NextRoundTrip ==
    \/ SceneCreate
    \/ SceneMoveX
    \/ SceneMoveY
    \/ SceneDraw
    \/ Rotate1
    \/ Draw1
    \/ MoveAway
    \/ DrawMoved
    \/ Rotate0
    \/ MoveBack
    \/ Draw2

SpecRoundTrip == InitRoundTrip /\ [][NextRoundTrip]_vars

\* C10: the round trip completes without a panic, and when it has the
\* pixel buffer is the one saved before the rotation.
C10_RoundTrip ==
    /\ pc # "scene" => ~panicked
    /\ pc = "done" => pixel_buffer = saved.buffer

\* ------------------------------------------------- rotating back by -theta
\* SpecRotateBack: a scene is set up and drawn as in SpecRoundTrip; then one
\* of its objects, unrotated, goes through
\*   set_object_rotation(id, theta), draw_all_layers,
\*   set_object_rotation(id, -theta), draw_all_layers.
\* The stored matrix is the inverse of the rotation by theta, which is the
\* rotation by -theta.
RotateBack ==
    /\ pc = "shown"
    /\ \E degrees \in Angles \ {0} :
          /\ rotate_degrees(degrees) = Unwrap(objects[saved.id + 1].transform).matrix
          /\ SetObjectRotation(saved.id, degrees)
    /\ pc' = "back"
    /\ UNCHANGED <<ops, saved>>

NextRotateBack ==
    \/ SceneCreate
    \/ SceneMoveX
    \/ SceneMoveY
    \/ SceneDraw
    \/ Rotate1
    \/ Draw1
    \/ RotateBack
    \/ Draw2

SpecRotateBack == InitRoundTrip /\ [][NextRotateBack]_vars

\* C11: rotating by theta, drawing, rotating by -theta and drawing again
\* completes without a panic, gives back the pixel buffer saved before the
\* first rotation, and leaves the object with no rotation.
C11_RotateBack ==
    /\ pc # "scene" => ~panicked
    /\ pc = "done" =>
          /\ pixel_buffer = saved.buffer
          /\ objects[saved.id + 1].transform = None

\* ------------------------------------------------------ textured objects
\* SpecTexture: unrotated textured and flat-colour objects, every footprint
\* inside the buffer; creates, moves, draws and direct calls of
\* get_pixel_from_object_at in any order, up to MaxOps operations.  A
\* texture is a list of texels; it can be shorter or longer than the
\* object's bounds.w * bounds.h.  saved holds the last sampling call.
TextureData ==
    {<<PIXEL_RED, PIXEL_GREEN, PIXEL_BLUE, PIXEL_RED>>, <<PIXEL_RED, PIXEL_GREEN>>,
     <<PIXEL_GREEN>>}

TexTick ==
    /\ ops < MaxOps
    /\ ops' = ops + 1
    /\ UNCHANGED pc

TexCreate ==
    /\ TexTick
    /\ Len(objects) < MaxObjects
    /\ \E key \in Keys, bounds \in CreateRects, data \in TextureData :
          /\ AscendingKey(key)
          /\ CreateObjectFromTexture(key, bounds, Texture(data, bounds.w, bounds.h))
    /\ UNCHANGED saved

TexCreateColor ==
    /\ TexTick
    /\ Len(objects) < MaxObjects
    /\ \E key \in Keys, bounds \in CreateRects :
          /\ AscendingKey(key)
          /\ CreateObjectFromColor(key, bounds, PIXEL_BLUE)
    /\ UNCHANGED saved

TexMoveX ==
    /\ TexTick
    /\ \E id \in ObjectIds, by \in Deltas :
          /\ InsideBuffer(move_object_x_by(Renderer, id, by).objects[id + 1].current_bounds)
          /\ MoveObjectXBy(id, by)
    /\ UNCHANGED saved

TexMoveY ==
    /\ TexTick
    /\ \E id \in ObjectIds, by \in Deltas :
          /\ InsideBuffer(move_object_y_by(Renderer, id, by).objects[id + 1].current_bounds)
          /\ MoveObjectYBy(id, by)
    /\ UNCHANGED saved

TexDraw == TexTick /\ DrawAllLayers /\ UNCHANGED saved

\* a direct call of get_pixel_from_object_at(id, x, y): the renderer is not
\* changed, the call returns or panics
TexSample ==
    /\ TexTick
    /\ \E id \in ObjectIds, x \in 0..(Width - 1), y \in 0..(Height - 1) :
          LET got == get_pixel_from_object_at(Renderer, id, x, y) IN
          /\ Commit([Renderer EXCEPT !.panicked = got.panic],
                    Op("get_pixel_from_object_at", 0))
          /\ saved' = [id |-> id, x |-> x, y |-> y, got |-> got]

NextTexture ==
    \/ TexCreate
    \/ TexCreateColor
    \/ TexMoveX
    \/ TexMoveY
    \/ TexDraw
    \/ TexSample

SpecTexture == Init /\ [][NextTexture]_vars

IsSample(op) == op.name = "get_pixel_from_object_at"

\* the unrotated textured object id has no texel for the pixel (x, y) of
\* its bounds
NoTexel(id, x, y) ==
    LET o == objects[id + 1] IN
    /\ o.texture_color = None
    /\ contains_u32(o.current_bounds, x, y)
    /\ get_red_index(x - o.current_bounds.x, y - o.current_bounds.y, o.current_bounds.w)
          >= Len(textures[o.texture_index + 1].data)

\* C12: with textures shorter than their object's bounds, draw_all_layers
\* does not panic, and get_pixel_from_object_at on a pixel of the bounds
\* that has no texel returns "no pixel" without a panic.
C12_ShortTexture ==
    /\ IsDraw(last_op) => ~panicked
    /\ (IsSample(last_op) /\ NoTexel(saved.id, saved.x, saved.y)) =>
          saved.got = Sampled(FALSE, None)

\* C13: get_pixel_from_object_at on a textured object at a point outside
\* the object's current_bounds panics.
C13_SampleOutsidePanics ==
    (/\ IsSample(last_op)
     /\ objects[saved.id + 1].texture_color = None
     /\ ~contains_u32(objects[saved.id + 1].current_bounds, saved.x, saved.y)) =>
        panicked

\* ------------------------------------------------------ TightVec alone
\* SpecTightVec: insert and remove calls in any order on one TightVec of
\* at most MaxSlots slots, with at most MaxFree entries in next.  The
\* renderer is left as constructed.  last_op is the call: its name, the
\* slot it wrote (insert) or the index it was given (remove), its value.
Values == {"Data1", "Data2"}

Range(seq) == {seq[k] : k \in 1..Len(seq)}

\* the call turns tightvec into t
VecCommit(t, op, free) ==
    /\ ~tightvec.panicked
    /\ tightvec' = t
    /\ freed' = free
    /\ last_op' = op
    /\ UNCHANGED <<pixel_buffer, clear_buffer, textures, layers, objects, panicked,
                   drawn, written, taken, ops, pc, saved, portioner, portions>>

VecInsert ==
    /\ tightvec.next # <<>> \/ len(tightvec) < MaxSlots
    /\ \E value \in Values :
          LET index == IF tightvec.next # <<>> THEN Head(tightvec.next) ELSE len(tightvec)
          IN  VecCommit(insert(tightvec, value),
                        [name |-> "insert", obj |-> index, value |-> value],
                        SelectSeq(freed, LAMBDA i : i # index))

VecRemove ==
    /\ unused_len(tightvec) < MaxFree
    /\ \E index \in 0..MaxSlots :
          VecCommit(remove(tightvec, index),
                    [name |-> "remove", obj |-> index, value |-> Empty],
                    IF index < len(tightvec) /\ index \notin Range(freed)
                    THEN Append(freed, index) ELSE freed)

NextTightVec == VecInsert \/ VecRemove

SpecTightVec == Init /\ [][NextTightVec]_vars

\* slot i holds a value that was inserted and not removed since
Live(i) == i < len(tightvec) /\ i \notin Range(freed)

\* C14: insert never writes into a slot that holds a live value.
C14_LiveSlotKept ==
    [][last_op'.name = "insert" => ~Live(last_op'.obj)]_vars

\* C15: insert writes the slot that was freed earliest among the free
\* slots, and appends a slot at index len() only when no slot is free.
C15_OldestFreeFirst ==
    [][last_op'.name = "insert" =>
          /\ last_op'.obj = IF freed # <<>> THEN Head(freed) ELSE len(tightvec)
          /\ len(tightvec') = IF freed # <<>> THEN len(tightvec) ELSE len(tightvec) + 1
          /\ tightvec'.buf[last_op'.obj + 1] = last_op'.value]_vars

\* C16: insert and remove change no slot but the one they write and never
\* move a slot; with every slot but k live, k just removed, insert puts
\* the new value at k and len() stays.
C16_SlotStability ==
    [][last_op'.name \in {"insert", "remove"} =>
          /\ len(tightvec') >= len(tightvec)
          /\ \A i \in 0..(len(tightvec) - 1) :
                i # last_op'.obj => tightvec'.buf[i + 1] = tightvec.buf[i + 1]
          /\ (last_op'.name = "insert" /\ last_op.name = "remove"
                  /\ tightvec.next = <<last_op.obj>> /\ freed = <<last_op.obj>>) =>
                /\ last_op'.obj = last_op.obj
                /\ tightvec'.buf[last_op.obj + 1] = last_op'.value
                /\ len(tightvec') = len(tightvec)]_vars

\* C16 witness: three slots filled, slot 1 removed and filled again, as in
\* can_remove_and_fill_empty_slots
C16_Witness ==
    /\ last_op = [name |-> "insert", obj |-> 1, value |-> "Data2"]
    /\ tightvec.buf = <<"Data1", "Data2", "Data1">>
    /\ tightvec.next = <<>>

\* C17: remove never panics; with index >= len() it changes nothing; in
\* range it sets the slot to the default value and keeps len().
C17_RemoveNeverFatal ==
    [][last_op'.name = "remove" =>
          /\ ~tightvec'.panicked
          /\ last_op'.obj >= len(tightvec) => tightvec' = tightvec
          /\ last_op'.obj < len(tightvec) =>
                /\ tightvec'.buf[last_op'.obj + 1] = Empty
                /\ len(tightvec') = len(tightvec)]_vars

\* C17 witness: a remove past the end, after the same slot was removed twice
C17_Witness ==
    /\ last_op.name = "remove"
    /\ len(tightvec) >= 1
    /\ last_op.obj >= len(tightvec)
    /\ unused_len(tightvec) >= 2
    /\ tightvec.next[1] = tightvec.next[2]

\* C18: unused_len() is the number of free slots, used_len() the number of
\* live slots, len() their sum, and used_len() does not underflow.
C18_Lengths ==
    /\ unused_len(tightvec) = Cardinality(Range(freed))
    /\ ~used_len(tightvec).underflow
    /\ used_len(tightvec).ret = Cardinality({i \in 0..(len(tightvec) - 1) : Live(i)})
    /\ len(tightvec) = used_len(tightvec).ret + unused_len(tightvec)

\* ----------------------------------------------------- Portioner alone
\* SpecPortioner: take_pixel and flush_portions calls in any order on one
\* Portioner; pixels one past the right and bottom edges are tried too.
\* The renderer is left as constructed.
PortCommit(p, ret, op) ==
    /\ portioner' = p
    /\ portions' = ret
    /\ last_op' = op
    /\ UNCHANGED <<pixel_buffer, clear_buffer, textures, layers, objects, panicked,
                   drawn, written, taken, ops, pc, saved, tightvec, freed>>

PortTake ==
    \E x \in 0..(GridCols * ColWidth), y \in 0..(GridRows * RowHeight) :
        PortCommit(portioner_take_pixel(portioner, x, y), <<>>, Op("take_pixel", 0))

\* follows is what the previous call returned when it was a flush_portions
\* too, None otherwise
PortFlush ==
    LET res == flush_portions(portioner)
    IN  PortCommit(res.p, res.ret,
                   [name |-> "flush_portions", obj |-> 0,
                    follows |-> IF last_op.name = "flush_portions"
                                THEN Some(portions) ELSE None])

NextPortioner == PortTake \/ PortFlush

SpecPortioner == Init /\ [][NextPortioner]_vars

\* the active cells, as (row, col)
ActiveCells ==
    {rc \in (0..(GridRows - 1)) \X (0..(GridCols - 1)) : portioner.grid[rc[1]][rc[2]]}

\* C19: when the active cells are exactly the cells of one rectangle,
\* flush_portions returns that rectangle alone and leaves no cell active.
C19_Minimality ==
    [][last_op'.name = "flush_portions" =>
          \A r0 \in 0..(GridRows - 1), r1 \in 0..(GridRows - 1),
             c0 \in 0..(GridCols - 1), c1 \in 0..(GridCols - 1) :
                (r0 <= r1 /\ c0 <= c1 /\ ActiveCells = (r0..r1) \X (c0..c1)) =>
                    /\ portions' = <<Rect(c0, r0, c1 - c0 + 1, r1 - r0 + 1)>>
                    /\ ActiveCells' = {}]_vars

\* C19 witness: a rectangle of two rows and two columns, away from the
\* left edge, was flushed
C19_Witness ==
    /\ last_op.name = "flush_portions"
    /\ portions = <<Rect(1, 0, 2, 2)>>
    /\ ActiveCells = {}

\* C20: a flush_portions that directly follows a flush_portions returns
\* the empty list.
C20_SecondFlushEmpty ==
    [][(last_op.name = "flush_portions" /\ last_op'.name = "flush_portions") =>
          portions' = <<>>]_vars

\* C20 witness: the empty list was returned by a flush that followed a
\* flush returning two rectangles
C20_Witness ==
    /\ last_op.name = "flush_portions"
    /\ IsSome(last_op.follows)
    /\ Len(Unwrap(last_op.follows)) = 2
    /\ portions = <<>>

\* ------------------------------------------------------ geometry alone
\* The specifications of the pure functions start from every input of a
\* bounded set (saved) and have one action, which applies the function and
\* keeps the results in saved.  The renderer is left as constructed.
InitPure(inputs) ==
    /\ pixel_buffer = new_ex.pixel_buffer
    /\ clear_buffer = new_ex.clear_buffer
    /\ textures = new_ex.textures
    /\ layers = new_ex.layers
    /\ objects = new_ex.objects
    /\ panicked = FALSE
    /\ last_op = Op("new_ex", 0)
    /\ drawn = <<>>
    /\ written = {}
    /\ taken = {}
    /\ ops = 0
    /\ pc = "input"
    /\ saved \in inputs
    /\ tightvec = TightVec
    /\ freed = <<>>
    /\ portioner = Portioner
    /\ portions = <<>>

\* pc becomes p and saved s, nothing else changes
Applied(p, s) ==
    /\ pc = "input"
    /\ pc' = p
    /\ saved' = s
    /\ UNCHANGED <<rvars, ops, tvars, pvars>>

\* SpecRects: two Rects with coordinates and sizes in 0..MaxCoord; a is
\* also taken as a TiltedRect, rotated by a quarter turn (or not at all),
\* which intersects by its bounding rect.
Rects == {Rect(x, y, w, h) : x \in 0..MaxCoord, y \in 0..MaxCoord,
                             w \in 0..MaxCoord, h \in 0..MaxCoord}

Intersect ==
    \E degrees \in Angles :
        LET t == from_bounds_and_matrix(saved.a, rotate_degrees(degrees)) IN
        Applied("intersection",
                [a |-> saved.a, b |-> saved.b, t |-> t.bounding_rect,
                 ab |-> intersection(saved.a, saved.b),
                 ba |-> intersection(saved.b, saved.a),
                 tb |-> intersection(t.bounding_rect, saved.b),
                 bt |-> intersection(saved.b, t.bounding_rect)])

SpecRects == InitPure([a : Rects, b : Rects]) /\ [][Intersect]_vars

\* the pixels two rects of SpecRects can contain
RectPixels == (0..(2 * MaxCoord)) \X (0..(2 * MaxCoord))

\* r is the intersection of a and b: Some(rect) holding exactly the pixels
\* of both when they share a pixel, None when they share none
IsIntersection(r, a, b) ==
    LET common == {p \in RectPixels : contains_u32(a, p[1], p[2]) /\ contains_u32(b, p[1], p[2])}
    IN  /\ IsSome(r) <=> common # {}
        /\ IsSome(r) =>
              {p \in RectPixels : contains_u32(Unwrap(r), p[1], p[2])} = common

\* C21: a.intersection(b) is Some(r) exactly when a and b share a pixel, r
\* then contains exactly the pixels of both, and the intersection is the
\* same in both orders, also for a TiltedRect taken by its bounding rect.
C21_Intersection ==
    pc = "intersection" =>
        /\ IsIntersection(saved.ab, saved.a, saved.b)
        /\ IsIntersection(saved.tb, saved.t, saved.b)
        /\ saved.ab = saved.ba
        /\ saved.tb = saved.bt

\* C21 witness: two rects that overlap in one pixel
C21_Witness ==
    /\ pc = "intersection"
    /\ saved.a = Rect(0, 0, 2, 2)
    /\ saved.b = Rect(1, 1, 2, 2)
    /\ saved.ab = Some(Rect(1, 1, 1, 1))

\* SpecTilted: a rectangle with integer corners, given by a corner p, the
\* edge u from it and the length m (in units of u turned by a quarter) of
\* the other edge; its corners in cyclic order are p, p + u, p + u + v and
\* p + v with v = m * (-u.y, u.x).  The action builds the TiltedRect of
\* each of the four cyclic choices of (A, B, C) and collects its
\* bounding_rect and the points, among TestPoints, each contains.
Corners(in) ==
    LET v == Point(0 - in.m * in.u.y, in.m * in.u.x) IN
    <<in.p, Point(in.p.x + in.u.x, in.p.y + in.u.y),
      Point(in.p.x + in.u.x + v.x, in.p.y + in.u.y + v.y),
      Point(in.p.x + v.x, in.p.y + v.y)>>

\* every point a corner can be, and a margin around them
TestPoints ==
    LET reach == MaxCoord * MaxCoord + MaxCoord IN
    ((0 - reach)..(reach + MaxCoord)) \X ((0 - reach)..(reach + MaxCoord))

TiltedContains ==
    LET c == Corners(saved)
        t == [k \in 1..4 |->
                 from_points(c[k], c[(k % 4) + 1], c[((k + 1) % 4) + 1])]
    IN  Applied("contains",
                [corners |-> c,
                 bounds |-> [k \in 1..4 |-> t[k].bounding_rect],
                 inside |-> [k \in 1..4 |->
                                {q \in TestPoints : contains(t[k], q[1], q[2])}]])

SpecTilted ==
    /\ InitPure([p : {Point(0, 1), Point(1, MaxCoord)},
                 u : {Point(x, y) : x \in (0 - MaxCoord)..MaxCoord,
                                    y \in (0 - MaxCoord)..MaxCoord},
                 m : (0 - MaxCoord)..MaxCoord])
    /\ [][TiltedContains]_vars

\* C22: the four cyclic choices of (A, B, C) among the corners of a
\* rectangle contain the same points, the corners themselves included.
C22_ContainsSymmetry ==
    pc = "contains" =>
        /\ \A k \in 2..4 : saved.inside[k] = saved.inside[1]
        /\ \A j \in 1..4 : <<saved.corners[j].x, saved.corners[j].y>> \in saved.inside[1]

\* C22 witness: the square with corners (0,1), (1,0), (2,1), (1,2), tilted
\* by 45 degrees, contains its centre and not the origin
C22_Witness ==
    /\ pc = "contains"
    /\ saved.corners = <<Point(0, 1), Point(1, 0), Point(2, 1), Point(1, 2)>>
    /\ <<1, 1>> \in saved.inside[1]
    /\ <<0, 0>> \notin saved.inside[1]

\* ------------------------------------------------------- matrix products
\* the matrices a caller builds directly: the identity, scales, translations
\* and quarter turns with integer coefficients
Translations == (0 - 1)..MaxCoord

Scales == 1..MaxCoord

Matrices ==
    {Unit}
    \cup {Scale(sx, sy) : sx \in Scales, sy \in Scales}
    \cup {TranslateXY(x, y) : x \in Translations, y \in Translations}
    \cup {rotate_degrees(d) : d \in {0, 90, -90, 180}}

\* the points the products are applied to
MatrixPoints == (0..MaxCoord) \X (0..MaxCoord)

\* SpecMatrix: a * b and (a * b) * c for three such matrices, each product
\* applied to every point next to the factors applied one after another.
Multiply ==
    LET a == saved.a
        b == saved.b
        c == saved.c
        ab == mul(a, b)
        abc == mul(ab, c)
    IN  Applied("product",
                [a |-> a, b |-> b, c |-> c, ab |-> ab, abc |-> abc,
                 by_ab |-> [q \in MatrixPoints |-> mul_point(ab, q[1], q[2])],
                 a_after_b |-> [q \in MatrixPoints |->
                     LET bq == mul_point(b, q[1], q[2]) IN mul_point(a, bq[1], bq[2])],
                 by_abc |-> [q \in MatrixPoints |-> mul_point(abc, q[1], q[2])],
                 ab_after_c |-> [q \in MatrixPoints |->
                     LET cq == mul_point(c, q[1], q[2]) IN mul_point(ab, cq[1], cq[2])]])

SpecMatrix == InitPure([a : Matrices, b : Matrices, c : Matrices]) /\ [][Multiply]_vars

\* C23: a product applies its right factor first and its left factor second:
\* (a * b).mul_point(x, y) = a.mul_point(b.mul_point(x, y)), whatever variant
\* the product is given, also when a factor is itself a product.
C23_PreMultiplication ==
    pc = "product" =>
        /\ saved.by_ab = saved.a_after_b
        /\ saved.by_abc = saved.ab_after_c

\* t1 * r * t2 turns (1, 0) a quarter about (1, 1) into (2, 1)
C23_Witness ==
    /\ pc = "product"
    /\ saved.a = TranslateXY(1, 1)
    /\ saved.b = rotate_degrees(90)
    /\ saved.c = TranslateXY(0 - 1, 0 - 1)
    /\ saved.by_abc[<<1, 0>>] = <<2, 1>>
    /\ saved.by_ab # [q \in MatrixPoints |->
           LET aq == mul_point(saved.a, q[1], q[2]) IN mul_point(saved.b, aq[1], aq[2])]

\* the narrowest variant that represents the coefficients m of a product
Narrowest(m) ==
    LET rotated == m[2] # 0 \/ m[4] # 0
        scaled == m[1] # 1 \/ m[5] # 1
        translated == m[3] # 0 \/ m[6] # 0
        sin_and_cos == m[1] = m[5] /\ m[2] = 0 - m[4]
    IN  CASE rotated /\ sin_and_cos /\ ~translated -> "Rotate"
          [] rotated /\ sin_and_cos /\ translated -> "RotateAndTranslate"
          [] rotated /\ ~sin_and_cos -> "RotateAndScaleAndTranslate"
          [] ~rotated /\ scaled /\ translated -> "ScaleAndTranslate"
          [] ~rotated /\ scaled /\ ~translated -> "Scale"
          [] ~rotated /\ ~scaled /\ translated -> "TranslateXY"
          [] ~rotated /\ ~scaled /\ ~translated -> "Unit"

\* C24: a product carries the narrowest variant that represents its
\* coefficients: Unit for the identity, TranslateXY for a pure translation,
\* Scale for a pure scale, ScaleAndTranslate for both, Rotate or
\* RotateAndTranslate only with a non-zero rotation part, and
\* RotateAndScaleAndTranslate otherwise.
C24_NarrowestVariant ==
    pc = "product" =>
        /\ saved.ab.kind = Narrowest(mul3x3(into(saved.a), into(saved.b)))
        /\ saved.abc.kind = Narrowest(mul3x3(into(saved.ab), into(saved.c)))

\* ------------------------------------------------ the calls of a draw
\* SpecSteps: the operations of Spec, in any order; saved is the log of
\* the calls the last draw_all_layers made, in the order it made them,
\* and empty after any other operation.
StepTick ==
    /\ ops < MaxOps
    /\ ops' = ops + 1
    /\ UNCHANGED pc

StepCreate ==
    /\ StepTick
    /\ Len(objects) < MaxObjects
    /\ \E key \in Keys, bounds \in CreateRects, color \in Colors :
          CreateObjectFromColor(key, bounds, color)
    /\ saved' = <<>>

StepRotate ==
    /\ StepTick
    /\ \E id \in ObjectIds, degrees \in Angles : SetObjectRotation(id, degrees)
    /\ saved' = <<>>

StepMoveX ==
    /\ StepTick
    /\ \E id \in ObjectIds, by \in Deltas : MoveObjectXBy(id, by)
    /\ saved' = <<>>

StepMoveY ==
    /\ StepTick
    /\ \E id \in ObjectIds, by \in Deltas : MoveObjectYBy(id, by)
    /\ saved' = <<>>

StepDraw ==
    /\ StepTick
    /\ DrawAllLayers
    /\ saved' = draw_all_layers(Renderer).steps

NextSteps == StepCreate \/ StepRotate \/ StepMoveX \/ StepMoveY \/ StepDraw

SpecSteps == Init /\ [][NextSteps]_vars

\* the positions of the log s where draw_object is entered
Draws(s) == {k \in 1..Len(s) : s[k][1] = "draw_object"}

\* the calls named name that the draw_object entered at position k of s made
Calls(s, k, name) ==
    {j \in (k + 1)..Len(s) :
        /\ s[j][1] = name
        /\ \A d \in Draws(s) : ~(k < d /\ d < j)}

\* C25: initial_render is true from an object's creation until its first
\* draw_object and false ever after; draw_object clears the previous
\* footprint exactly when initial_render is false; within one draw_object
\* the clear comes before the paint of the current footprint, and the
\* update of previous_bounds comes after both.
C25_DrawStateMachine ==
    [][/\ \A i \in 1..Len(objects') :
              IF i > Len(objects) THEN objects'[i].initial_render
              ELSE objects'[i].initial_render =
                      (objects[i].initial_render
                       /\ \A k \in Draws(saved') : saved'[k][2] # i - 1)
       /\ \A k \in Draws(saved') :
              LET id == saved'[k][2]
                  clears == Calls(saved', k, "clear_object_previous_bounds")
                  paints == Calls(saved', k, "draw_pixel") \cup Calls(saved', k, "draw_exact")
                  writes == Calls(saved', k, "set_pixel")
                  updates == Calls(saved', k, "previous_bounds")
              IN  /\ saved'[k][3] =
                         (objects[id + 1].initial_render
                          /\ \A d \in Draws(saved') : d < k => saved'[d][2] # id)
                  /\ (clears # {}) = ~saved'[k][3]
                  /\ \A c \in clears, p \in paints : c < p
                  /\ \A c \in clears, p \in paints, w \in writes :
                         (c < w /\ w < p) \/ p < w
                  /\ \A u \in updates : \A c \in clears \cup paints \cup writes : c < u
                  /\ ~panicked' => updates # {}]_vars

\* an object drawn before is drawn again: its old footprint is cleared and
\* pixels are written both before and after the paint starts
C25_Witness ==
    /\ ~panicked
    /\ \E k \in Draws(saved) :
          /\ saved[k][3] = FALSE
          /\ \E c \in Calls(saved, k, "clear_object_previous_bounds"),
                p \in Calls(saved, k, "draw_pixel"),
                w1 \in Calls(saved, k, "set_pixel"),
                w2 \in Calls(saved, k, "set_pixel"),
                u \in Calls(saved, k, "previous_bounds") :
                c < w1 /\ w1 < p /\ p < w2 /\ w2 < u

\* the position (0-based) of the layer whose objects list holds object id
LayerOf(ls, id) == (CHOOSE i \in 1..Len(ls) : id \in Range(ls[i].objects)) - 1

\* the updates lists of ls from position i on, one after another
RECURSIVE Marked(_, _)
Marked(ls, i) == IF i >= Len(ls) THEN <<>> ELSE ls[i + 1].updates \o Marked(ls, i + 1)

\* C26: within one draw_all_layers call the dirty objects are drawn in
\* ascending layer position and, within one layer, in the order in which
\* they were marked dirty; a pixel an object skips because a dirty object
\* on a higher layer covers it is painted by that higher object later in
\* the same call.
C26_DrawOrder ==
    [][(IsDraw(last_op') /\ ~panicked') =>
          /\ drawn' = Marked(layers, 0)
          /\ \A k \in 1..Len(drawn'), l \in 1..Len(drawn') :
                 k < l => LayerOf(layers, drawn'[k]) <= LayerOf(layers, drawn'[l])
          /\ \A k \in Draws(saved') : \A j \in Calls(saved', k, "skip") :
                 \A d \in Draws(saved') :
                     (/\ LayerOf(layers, saved'[d][2]) > LayerOf(layers, saved'[k][2])
                      /\ contains_u32(get_bounds(objects[saved'[d][2] + 1]),
                                      saved'[j][2], saved'[j][3]))
                     => \E d2 \in Draws(saved') : \E w \in Calls(saved', d2, "set_pixel") :
                           /\ saved'[d2][2] = saved'[d][2]
                           /\ w > j
                           /\ saved'[w][2] = saved'[j][2]
                           /\ saved'[w][3] = saved'[j][3]]_vars

\* ------------------------------------------------ regions above, below
\* SpecRegions: the operations of SpecSteps, and after them a call of
\* get_regions_above_object and get_regions_below_object for any object
\* and any layer position; saved is the call and what it returned.
Regions ==
    /\ pc = "free"
    /\ pc' = "regions"
    /\ ~panicked
    /\ \E object_index \in ObjectIds, layer_index \in 0..(Len(layers) - 1) :
          saved' = [object_index |-> object_index, layer_index |-> layer_index,
                    above |-> get_regions_above_object(Renderer, object_index, layer_index),
                    below |-> get_regions_below_object(Renderer, object_index, layer_index)]
    /\ UNCHANGED <<rvars, ops, tvars, pvars>>

NextRegions == (pc = "free" /\ NextSteps) \/ Regions

SpecRegions == Init /\ [][NextRegions]_vars

\* saved is a call of Regions
IsRegions == pc = "regions"

\* the pixels of a rect
PixelsOf(b) == (b.x..(b.x + b.w - 1)) \X (b.y..(b.y + b.h - 1))

\* the objects listed on the layers at the positions of the list at, in
\* that order, that share a pixel with rect b
RECURSIVE Touching(_, _, _)
Touching(at, b, k) ==
    IF k > Len(at) THEN <<>>
    ELSE SelectSeq(layers[at[k] + 1].objects,
                   LAMBDA id : PixelsOf(get_bounds(objects[id + 1])) \cap PixelsOf(b) # {})
         \o Touching(at, b, k + 1)

\* regions holds, for each object of the list ids in turn, the pixels the
\* object shares with rect b
Shared(regions, ids, b) ==
    /\ Len(regions) = Len(ids)
    /\ \A k \in 1..Len(ids) :
          PixelsOf(regions[k]) = PixelsOf(get_bounds(objects[ids[k] + 1])) \cap PixelsOf(b)

ClearTick ==
    /\ ops < MaxClearOps
    /\ ops' = ops + 1
    /\ UNCHANGED <<pc, saved>>

ClearCreate ==
    /\ ClearTick
    /\ Len(objects) < MaxCreates
    /\ \E key \in Keys, bounds \in CreateRects, color \in Colors :
          /\ AscendingKey(key)
          /\ CreateObjectFromColor(key, bounds, color)

ClearMoveX ==
    /\ ClearTick
    /\ \E id \in ObjectIds, by \in Deltas :
          /\ InsideBuffer(move_object_x_by(Renderer, id, by).objects[id + 1].current_bounds)
          /\ MoveObjectXBy(id, by)

ClearMoveY ==
    /\ ClearTick
    /\ \E id \in ObjectIds, by \in Deltas :
          /\ InsideBuffer(move_object_y_by(Renderer, id, by).objects[id + 1].current_bounds)
          /\ MoveObjectYBy(id, by)

ClearDraw == ClearTick /\ DrawAllLayers

NextClear == ClearCreate \/ ClearMoveX \/ ClearMoveY \/ ClearDraw

SpecClear == Init /\ [][NextClear]_vars

\* the pixel the objects of the list ids supply at a point: the colour of
\* the first of them that is not of alpha 0, the clear buffer's pixel when
\* there is none
RECURSIVE Supplied(_, _, _, _)
Supplied(ids, x, y, k) ==
    IF k > Len(ids) THEN clear_buffer[get_red_index(x, y, Width) + 1]
    ELSE IF Unwrap(objects[ids[k] + 1].texture_color).a # 0
    THEN Unwrap(objects[ids[k] + 1].texture_color)
    ELSE Supplied(ids, x, y, k + 1)

\* C28: when a previous footprint is cleared, each of its pixels that is
\* not inside an above_previous rectangle is restored to the pixel of the
\* nearest lower-layer object that covers it with a non-zero alpha, a
\* transparent object being passed over, and to the clear buffer's pixel
\* only when no lower object supplies one.  Stated for a draw_all_layers
\* that draws one object, drawn before, at the pixels it has left.
C28_ClearFallsThrough ==
    [][(IsDraw(last_op') /\ ~panicked' /\ Len(Marked(layers, 0)) = 1) =>
          LET id == Marked(layers, 0)[1]
              L == LayerOf(layers, id)
              lower == [k \in 1..L |-> L - k]
              higher == [k \in 1..(Len(layers) - 1 - L) |-> L + k]
          IN  ~objects[id + 1].initial_render =>
                 \A p \in PixelsOf(objects[id + 1].previous_bounds) :
                     (/\ Touching(higher, Rect(p[1], p[2], 1, 1), 1) = <<>>
                      /\ ~contains_u32(objects[id + 1].current_bounds, p[1], p[2]))
                     => pixel_buffer'[get_red_index(p[1], p[2], Width) + 1]
                           = Supplied(Touching(lower, Rect(p[1], p[2], 1, 1), 1),
                                      p[1], p[2], 1)]_vars

\* the ids of the objects with a colour of non-zero alpha whose
\* current_bounds contains (x, y)
OpaqueAt(x, y) ==
    {id \in ObjectsAt(x, y) : Unwrap(objects[id + 1].texture_color).a # 0}

\* C29: a zero-alpha pixel of a higher object does not hide what is beneath
\* it: after draw_all_layers every point that an opaque object covers
\* shows the colour of the highest opaque object covering it, whatever
\* zero-alpha objects lie above.
C29_TransparentShowsBeneath ==
    (IsDraw(last_op) /\ ~panicked) =>
        \A x \in 0..(Width - 1), y \in 0..(Height - 1) :
            OpaqueAt(x, y) # {} =>
                LET top == CHOOSE id \in OpaqueAt(x, y) :
                               \A other \in OpaqueAt(x, y) :
                                   LayerOf(layers, other) <= LayerOf(layers, id)
                IN  pixel_buffer[get_red_index(x, y, Width) + 1]
                        = Unwrap(objects[top + 1].texture_color)

\* ------------------------------------------------- the edge of the buffer
\* SpecEdge: the objects of SpecClear, moved by any delta, also past the
\* right and the lower edge of the buffer, and drawn.
EdgeMoveX == ClearTick /\ \E id \in ObjectIds, by \in Deltas : MoveObjectXBy(id, by)

EdgeMoveY == ClearTick /\ \E id \in ObjectIds, by \in Deltas : MoveObjectYBy(id, by)

NextEdge == ClearCreate \/ EdgeMoveX \/ EdgeMoveY \/ ClearDraw

SpecEdge == Init /\ [][NextEdge]_vars

\* C30: draw_all_layers never writes the pixel buffer, and never calls
\* take_pixel, at a coordinate with x >= width or y >= height: a footprint
\* that extends past the edge of the buffer is clipped to the buffer.
C30_ClippedToBuffer ==
    IsDraw(last_op) =>
        \A p \in written \cup taken : p[1] < Width /\ p[2] < Height

\* ------------------------------------------------------ frame of a draw
\* the objects marked dirty on some layer
Dirty == Range(Marked(layers, 0))

\* C31: draw_all_layers changes only pixels inside the previous or the
\* current footprint of an object that was dirty at the call, all those
\* footprints being inside the buffer: every other pixel is unchanged, and
\* every field of every object that was not dirty is unchanged.
C31_DrawFrame ==
    [][(/\ IsDraw(last_op')
        /\ ~panicked'
        /\ \A id \in Dirty :
              /\ InsideBuffer(objects[id + 1].previous_bounds)
              /\ InsideBuffer(get_bounds(objects[id + 1])))
       => /\ \A x \in 0..(Width - 1), y \in 0..(Height - 1) :
                (\A id \in Dirty :
                    /\ <<x, y>> \notin PixelsOf(objects[id + 1].previous_bounds)
                    /\ <<x, y>> \notin PixelsOf(get_bounds(objects[id + 1])))
                => pixel_buffer'[get_red_index(x, y, Width) + 1]
                      = pixel_buffer[get_red_index(x, y, Width) + 1]
          /\ \A id \in ObjectIds : id \notin Dirty => objects'[id + 1] = objects[id + 1]]_vars

\* a draw that wrote pixels and left alone an opaque object that was not
\* dirty: a pixel of that object outside the drawn footprints still shows it
C31_Witness ==
    /\ IsDraw(last_op)
    /\ ~panicked
    /\ written # {}
    /\ \E id \in ObjectIds \ Range(drawn) :
          \E p \in PixelsOf(objects[id + 1].current_bounds) :
              /\ \A d \in Range(drawn) : p \notin PixelsOf(objects[d + 1].current_bounds)
              /\ pixel_buffer[get_red_index(p[1], p[2], Width) + 1] = PIXEL_RED

\* ------------------------------------------------- the frame of a call
\* SpecCalls: the operations of SpecSteps; after a rotation or a move saved
\* is the call: the object and the angle or the delta it was given.
Call(id, arg) == [id |-> id, arg |-> arg]

CallRotate ==
    /\ StepTick
    /\ \E id \in ObjectIds, degrees \in Angles :
          /\ SetObjectRotation(id, degrees)
          /\ saved' = Call(id, degrees)

CallMoveX ==
    /\ StepTick
    /\ \E id \in ObjectIds, by \in Deltas :
          /\ MoveObjectXBy(id, by)
          /\ saved' = Call(id, by)

CallMoveY ==
    /\ StepTick
    /\ \E id \in ObjectIds, by \in Deltas :
          /\ MoveObjectYBy(id, by)
          /\ saved' = Call(id, by)

NextCalls == StepCreate \/ CallRotate \/ CallMoveX \/ CallMoveY \/ StepDraw

SpecCalls == Init /\ [][NextCalls]_vars

\* one entry for object id is appended to the dirty list of its layer, and
\* the layers are otherwise as they were
OneEntry(id) ==
    layers' = [layers EXCEPT ![objects[id + 1].layer_index + 1].updates = Append(@, id)]

\* C32: a move or a rotation never modifies the pixel buffer, the marks of
\* the Portioner, previous_bounds, initial_render or any other object; a
\* call that changes the object appends exactly one entry for it to its
\* layer's dirty list; set_object_rotation(id, 0) clears the transform and
\* adds an entry only if there was one, and is a no-op on an unrotated
\* object; a non-zero angle installs a transform and adds one entry.
C32_CallFrame ==
    [][IsMoveOrRotate(last_op') =>
          LET id == saved'.id
              before == objects[id + 1]
              after == objects'[id + 1]
          IN  /\ pixel_buffer' = pixel_buffer
              /\ clear_buffer' = clear_buffer
              /\ written' = {}
              /\ taken' = {}
              /\ Len(objects') = Len(objects)
              /\ \A k \in ObjectIds : k # id => objects'[k + 1] = objects[k + 1]
              /\ after.previous_bounds = before.previous_bounds
              /\ after.initial_render = before.initial_render
              /\ layers' = layers \/ OneEntry(id)
              /\ after # before => OneEntry(id)
              /\ last_op'.name = "set_object_rotation" =>
                    IF saved'.arg = 0
                    THEN /\ after.transform = None
                         /\ IsSome(before.transform) => OneEntry(id)
                         /\ before.transform = None => (after = before /\ layers' = layers)
                    ELSE IsSome(after.transform) /\ OneEntry(id)]_vars

SameCreate ==
    /\ ClearTick
    /\ Len(objects) < MaxObjects
    /\ \E bounds \in CreateRects :
          CreateObjectFromColor(0, bounds, SceneColorOf(Len(objects) + 1))

NextSameLayer == SameCreate \/ ClearMoveX \/ ClearMoveY \/ ClearDraw

SpecSameLayer == Init /\ [][NextSameLayer]_vars

\* C34: when objects of one layer overlap and only one of them is moved
\* and redrawn, every pixel that an object that did not move still covers
\* shows an object covering it after draw_all_layers (that object, or the
\* moved one where it covers the pixel too): the clear step of the moved
\* object does not leave the clear buffer's pixel there.
C34_SameLayerNeighbour ==
    [][(IsDraw(last_op') /\ ~panicked' /\ Len(Marked(layers, 0)) = 1) =>
          LET moved == Marked(layers, 0)[1] IN
          \A k \in ObjectIds \ {moved} :
              ~objects[k + 1].initial_render =>
                  \A p \in PixelsOf(objects[k + 1].current_bounds) :
                      LET shown == pixel_buffer'[get_red_index(p[1], p[2], Width) + 1] IN
                      \E c \in ObjectsAt(p[1], p[2]) :
                          shown = Unwrap(objects[c + 1].texture_color)]_vars

\* ------------------------------------------------ sampler and painter
\* SpecSample: the behaviours of SpecTexture, with quarter-turn rotations
\* of the textured and flat-colour objects as well.
TexRotate ==
    /\ TexTick
    /\ \E id \in ObjectIds, degrees \in Angles : SetObjectRotation(id, degrees)
    /\ UNCHANGED saved

NextSample ==
    \/ TexCreate
    \/ TexCreateColor
    \/ TexRotate
    \/ TexMoveX
    \/ TexMoveY
    \/ TexDraw
    \/ TexSample

SpecSample == Init /\ [][NextSample]_vars

\* the renderer after painting the object alone: first render (nothing to
\* clear), nothing above it to skip
PaintedAlone(id) ==
    draw_object([Renderer EXCEPT !.panicked = FALSE, !.written = {},
                                 !.objects[id + 1].initial_render = TRUE],
                id, [above_my_current |-> <<>>, above_my_previous |-> <<>>],
                [below_my_previous |-> <<>>])

\* C35: at every point where painting an object writes a pixel,
\* get_pixel_from_object_at returns that pixel, for flat-colour and
\* textured objects, rotated or not, also with a texture longer than the
\* bounds; the call never panics on a flat-colour object (it has no need
\* of the texture arena).
C35_SamplerMatchesPainter ==
    IsSample(last_op) =>
        LET painted == PaintedAlone(saved.id) IN
        /\ IsSome(objects[saved.id + 1].texture_color) => ~saved.got.panic
        /\ (~painted.panicked /\ <<saved.x, saved.y>> \in painted.written) =>
              saved.got = Sampled(FALSE,
                  Some(painted.pixel_buffer[get_red_index(saved.x, saved.y, Width) + 1]))

\* ------------------------------------------- a new layer and the old ones
\* C36: a create_object that adds a layer leaves every existing object's
\* layer_index as it was, and the layer at that position has the same
\* human index as before and lists the object, before and after.
C36_NewLayerKeepsPositions ==
    [][(IsCreate(last_op') /\ Len(layers') > Len(layers)) =>
          \A id \in ObjectIds :
              LET li == objects[id + 1].layer_index IN
              /\ objects'[id + 1].layer_index = li
              /\ li < Len(layers)
              /\ layers'[li + 1].index = layers[li + 1].index
              /\ id \in Range(layers[li + 1].objects)
              /\ id \in Range(layers'[li + 1].objects)]_vars

\* every create so far added a layer, and the last one added a layer with
\* a key below that of the layer before it
C36_Witness ==
    /\ IsCreate(last_op)
    /\ Len(objects) >= 2
    /\ Len(layers) = Len(objects) + 1
    /\ layers[Len(layers)].index < layers[Len(layers) - 1].index

\* ------------------------------------------------- bounding_rect
\* the point (x, y) is within the rect, its far edges included
Within(b, x, y) ==
    /\ b.x <= x /\ x <= b.x + b.w
    /\ b.y <= y /\ y <= b.y + b.h

\* C37: for a TiltedRect built by from_points from the corners, with
\* non-negative integer coordinates, of a rectangle with sides of non-zero
\* length, every point that contains() accepts,
\* each of the four corners included, lies within bounding_rect in x and
\* in y.
C37_BoundingRect ==
    (/\ pc = "contains"
     /\ saved.corners[1] # saved.corners[2]
     /\ saved.corners[2] # saved.corners[3]
     /\ \A j \in 1..4 : saved.corners[j].x >= 0 /\ saved.corners[j].y >= 0) =>
        \A k \in 1..4 :
            /\ \A q \in saved.inside[k] : Within(saved.bounds[k], q[1], q[2])
            /\ \A j \in 1..4 :
                  Within(saved.bounds[k], saved.corners[j].x, saved.corners[j].y)

\* ------------------------------------------------- blocks of equal runs
\* the cells x .. x + w - 1 of the row are a maximal run of active cells
IsRun(grid, row, x, w) ==
    /\ row \in 0..(GridRows - 1)
    /\ \A col \in x..(x + w - 1) : grid[row][col]
    /\ x > 0 => ~grid[row][x - 1]
    /\ x + w < GridCols => ~grid[row][x + w]

\* the maximal blocks of vertically consecutive identical runs, as rects
Blocks(grid) ==
    {b \in {Rect(x, y, w, h) : x \in 0..(GridCols - 1), y \in 0..(GridRows - 1),
                               w \in 1..GridCols, h \in 1..GridRows} :
        /\ b.x + b.w <= GridCols
        /\ b.y + b.h <= GridRows
        /\ \A row \in b.y..(b.y + b.h - 1) : IsRun(grid, row, b.x, b.w)
        /\ ~IsRun(grid, b.y - 1, b.x, b.w)
        /\ ~IsRun(grid, b.y + b.h, b.x, b.w)}

\* C38: for any set of active cells, flush_portions returns exactly one
\* rectangle for every maximal block of vertically consecutive identical
\* runs (the backward walk, which stops at the first entry that does not
\* touch the row, misses no entry the candidate could be merged into).
C38_OneRectPerBlock ==
    [][last_op'.name = "flush_portions" =>
          /\ Range(portions') = Blocks(portioner.grid)
          /\ Len(portions') = Cardinality(Blocks(portioner.grid))]_vars

====
